---- MODULE Spec2Model ----
(***************************************************************************)
(* Model of the wifi_Tank firmware's bounded multi-client connection core: *)
(*   - the TCP control channel of system.c (slot table, accept poll,       *)
(*     liveness pass, broadcast, live count),                              *)
(*   - the WebSocket overlay channel of overlay.c (lazy discovery by       *)
(*     descriptor scan, fan-out),                                          *)
(*   - the MJPEG frame pump of stream.c (stream_handler, StreamStart,      *)
(*     StreamStop), alone and as instances running side by side,           *)
(*   - the overlay serialization overlay_to_json, and OverlaySendUpdate    *)
(*     called by tasks side by side,                                       *)
(*   - the control channel with its remote ends followed (bytes sent,      *)
(*     stream closed), also under fair scheduling,                         *)
(*   - the 32-bit throughput counters of main.c and the task that          *)
(*     samples them.                                                       *)
(* The three channels keep their state in three separate static structs    *)
(* (system_state, overlay_state, stream_state) and share none of it, so a  *)
(* behaviour exercises one channel, selected by `channel` in Init.         *)
(***************************************************************************)
EXTENDS Integers, Sequences, FiniteSets, TLC

\* ------------------------------------------------------------ constants
\* system.c: #define MAX_CLIENTS 4
MAX_CLIENTS == 4
\* Socket descriptors the network stack can hand out to the control channel.
MaxHandles == 5
\* Largest payload length given to SystemTcpSendToClients.
MaxLen == 2
\* Descriptors and payload bytes when the remote ends are followed.
MaxPeers == 1
MaxPeerLen == 1
\* send() calls that fail with a hard error in one behaviour.
MaxHardErrors == 1

Slots == 0 .. (MAX_CLIENTS - 1)
Handles == 1 .. MaxHandles

VARIABLES
    channel,        \* which channel this behaviour exercises
    \* ---- control channel (system_state, its tasks and its sockets)
    client_mutex,   \* system_state.client_mutex: "null", "free", or the task
                    \* that holds it: "worker", "sender", "query"
    running,        \* system_state.running
    server_socket,  \* system_state.server_socket (-1 or the listening descriptor)
    clients,        \* system_state.clients[]: [socket, connected, addr]
    init_pc,        \* position of SystemInit
    w_pc,           \* position of system_task
    w_i,            \* cleanup_disconnected_clients' loop index i
    w_peek,         \* cleanup_disconnected_clients' latest recv(): [ret, errno, sock]
    client_sock,    \* accept_new_client's local client_sock (-1: nothing accepted)
    added,          \* accept_new_client's local added
    open,           \* client descriptors that are open
    stray,          \* TRUE once close() was called on a descriptor that is not open
    s_pc,           \* position of the task inside SystemTcpSendToClients
    s_len,          \* SystemTcpSendToClients' argument len
    s_i,            \* SystemTcpSendToClients' loop index i
    total_sent,     \* SystemTcpSendToClients' local total_sent
    s_live,         \* slots that were live when the call took the mutex
    s_hard,         \* slots whose send() failed with a hard error in this call
    s_tried,        \* slots this call has called send() on, in call order
    s_last,         \* what the call's latest send() answered: [ret, errno]
    w_accepts,      \* accept() calls the worker has made in this cycle
    create_rets,    \* what the tcp_server_create calls made so far returned
    listening,      \* descriptors that bind() and listen() have succeeded on
    rx_pending,     \* open descriptors holding bytes the peer sent, unread
    fin,            \* open descriptors whose remote end has closed
    s_short,        \* TRUE once a send() of this call took less than len without a hard error
    hard_errors,    \* send() calls that failed with a hard error so far
    send_ret,       \* value SystemTcpSendToClients returned
    q_pc,           \* position of the task inside SystemTcpGetClientCount
    \* ---- overlay channel (overlay_state and the HTTP server's sessions)
    ov_server,      \* overlay_state.server: FALSE = NULL
    ov_initialized, \* overlay_state.initialized
    ov_clients,     \* overlay_state.clients[]: [fd, connected]
    client_count,   \* overlay_state.client_count
    ov_pc,          \* position of the task that calls OverlayInit and OverlaySendUpdate
    ov_ret,         \* value OverlaySendUpdate returned
    ov_sent,        \* ws_async_send's local clients: frames sent successfully
    ov_tried,       \* descriptors httpd_ws_send_frame_async was called on in this call
    ws,             \* descriptors the server reports as HTTPD_WS_CLIENT_WEBSOCKET
    ws_closes,      \* WebSocket sessions closed so far
    ov_heap,        \* this call's JSON buffer and frame structure: built, free() calls
    \* ---- frame pump (stream.c)
    stream_client_count, \* stream_state.client_count
    frame_count,    \* stream_state.frame_count
    p_pc,           \* position of the server task inside stream_handler
    fb,             \* stream_handler's local fb: the buffer held, 0 for NULL
    res,            \* stream_handler's local res
    fb_out,         \* buffers the camera driver has handed out
    fb_bad,         \* a buffer was returned that was not handed out
    p_gets,         \* buffers this call acquired
    p_rets,         \* esp_camera_fb_return calls of this call
    streaming,      \* stream_state.streaming
    stream_stops,   \* StreamStop calls so far
    fb_len,         \* fb->len of the buffer the latest esp_camera_fb_get gave
    jpg_buf_len,    \* stream_handler's local _jpg_buf_len
    p_sent,         \* httpd_resp_send_chunk calls of this loop iteration, in order
    \* ---- frame pumps running side by side (stream_handler instances)
    h_pc,           \* position of each stream_handler instance
    h_reg,          \* each instance's register copy of stream_state.client_count
    h_enters,       \* stream_handler calls so far
    \* ---- tasks that call OverlaySendUpdate side by side
    u_pc,           \* position of each task inside OverlaySendUpdate
    \* ---- overlay serialization (overlay_to_json and its caller)
    j_pc,           \* position of the caller around overlay_to_json
    overlay,        \* the overlay_data_t the caller passes
    json,           \* what overlay_to_json returned
    \* ---- throughput counters (main.c, app_throughput)
    total_rx_bytes, \* app_throughput.total_rx_bytes, a uint32_t as << high, low >>
    total_tx_bytes, \* app_throughput.total_tx_bytes, a uint32_t as << high, low >>
    tp_adds,        \* app_throughput_add_rx and _tx calls so far
    last_rx_bytes,  \* app_throughput.last_rx_bytes
    last_tx_bytes,  \* app_throughput.last_tx_bytes
    m_pc,           \* position of throughput_monitor_task in its loop body
    sum_rx,         \* sum, in uint32_t, of the rx_bytes_diff values computed so far
    sum_tx          \* sum, in uint32_t, of the tx_bytes_diff values computed so far

ctlVars == << client_mutex, running, server_socket, clients, init_pc, w_pc, w_i,
              w_peek, client_sock, added, open, stray, s_pc, s_len, s_i, total_sent, s_live, s_hard,
              s_short, s_tried, s_last, hard_errors, send_ret, q_pc, w_accepts,
              create_rets, listening, rx_pending, fin >>

\* What the remote ends have done to the descriptors.
peerVars == << rx_pending, fin >>

ovlVars == << ov_server, ov_initialized, ov_clients, client_count, ov_pc, ov_ret,
              ov_sent, ov_tried, ws, ws_closes, ov_heap >>

pumpVars == << stream_client_count, frame_count, p_pc, fb, res, fb_out, fb_bad,
               p_gets, p_rets, streaming, stream_stops, fb_len, jpg_buf_len,
               p_sent >>

jsonVars == << j_pc, overlay, json >>

handlerVars == << h_pc, h_reg, h_enters >>

tpVars == << total_rx_bytes, total_tx_bytes, tp_adds, last_rx_bytes, last_tx_bytes,
            m_pc, sum_rx, sum_tx >>

\* What throughput_monitor_task writes and where it stands.
monVars == << last_rx_bytes, last_tx_bytes, m_pc, sum_rx, sum_tx >>

vars == << channel, ctlVars, ovlVars, pumpVars, jsonVars, handlerVars, u_pc, tpVars >>

\* A step of one channel leaves the other channels' structs alone.
ControlFrame ==
    UNCHANGED << channel, ovlVars, pumpVars, jsonVars, handlerVars, u_pc, tpVars >>
\* A step of the overlay's environment or of its one sequential caller.
OverlayFrame ==
    UNCHANGED << channel, ctlVars, pumpVars, jsonVars, handlerVars, u_pc, tpVars >>
PumpFrame ==
    UNCHANGED << channel, ctlVars, ovlVars, jsonVars, handlerVars, u_pc, tpVars >>
JsonFrame ==
    UNCHANGED << channel, ctlVars, ovlVars, pumpVars, handlerVars, u_pc, tpVars >>
\* A step of a task inside OverlaySendUpdate.
UpdaterFrame ==
    UNCHANGED << channel, ctlVars, pumpVars, jsonVars, handlerVars, ov_server,
                 ov_initialized, ov_pc, ov_ret, ov_sent, ov_tried, ws, ws_closes,
                 ov_heap, tpVars >>
\* A step of a stream_handler instance writes, of stream_state, client_count only.
HandlersFrame ==
    UNCHANGED << channel, ctlVars, ovlVars, jsonVars, frame_count, p_pc, fb, res,
                 fb_out, fb_bad, p_gets, p_rets, streaming, stream_stops, fb_len,
                 jpg_buf_len, p_sent, u_pc, tpVars >>
\* A step of a caller of app_throughput_add_rx or app_throughput_add_tx.
ThroughputFrame ==
    UNCHANGED << channel, ctlVars, ovlVars, pumpVars, jsonVars, handlerVars, u_pc >>

\* The control channel is explored twice: "control" leaves open what the
\* remote ends do, so a peek or a send can answer anything; "peers" follows
\* each remote end (bytes sent, stream closed) and the peek answers from that.
ControlChannels == {"control", "peers"}

\* A step of app_main's SystemInit or of the worker task.  Such a step touches
\* nothing of a SystemTcpSendToClients call that has returned, so it is taken
\* after the caller has read the returned value; the "peers" exploration,
\* which is also run under fairness, takes the steps in any order.
WorkerTurn == channel = "peers" \/ (channel = "control" /\ s_pc # "return")

\* ------------------------------------------------------------ control channel
\* The listening descriptor socket() returns to tcp_server_create.
ListenSock == 0

\* Static initializer of system_state: clients[] is zero-filled.
ZeroClient == [socket |-> 0, connected |-> FALSE, addr |-> 0]

\* The address accept() reports for the peer behind descriptor s.
PeerAddr(s) == 1

\* No recv() made in this loop iteration.
NoPeek == [ret |-> 1, errno |-> "skip", sock |-> -1]

\* What recv(sock, &buf, 1, MSG_PEEK | MSG_DONTWAIT) can answer on an open
\* descriptor: a byte is readable, the remote end closed, nothing to read,
\* the connection failed.  A descriptor that is not open answers EBADF.
PeekOutcomes(op, s) ==
    IF s \in op
    THEN {[ret |-> 1, errno |-> "none", sock |-> s],
          [ret |-> 0, errno |-> "none", sock |-> s],
          [ret |-> -1, errno |-> "EAGAIN", sock |-> s],
          [ret |-> -1, errno |-> "ECONNRESET", sock |-> s]}
    ELSE {[ret |-> -1, errno |-> "EBADF", sock |-> s]}

\* The flags of the recv() of line 175: the byte is peeked, not read, and
\* the call does not wait.
PeekFlags == {"MSG_PEEK", "MSG_DONTWAIT"}

\* Variant of PeekEvicts: every failed peek evicts, a would-block included.
PeekEvicts_anyFailure(r) == r.ret <= 0

\* What the peek of line 175 answers on open descriptor s when what its remote
\* end has done is known: bytes the peer sent stay in the receive queue, since
\* nothing in system.c reads them, and are reported before the end of stream.
TrackedPeek(s) ==
    IF s \in rx_pending
    THEN {[ret |-> 1, errno |-> "none", sock |-> s]}
    ELSE IF s \in fin
         THEN {[ret |-> 0, errno |-> "none", sock |-> s]}
         ELSE {[ret |-> -1, errno |-> "EAGAIN", sock |-> s]}

\* cleanup_disconnected_clients, line 177.
PeekEvicts(r) == r.ret = 0 \/ (r.ret < 0 /\ r.errno # "EAGAIN")

\* No send() made in this loop iteration.
NoSend == [ret |-> 0, errno |-> "skip"]

\* What send(sock, data, len, 0) can answer.
SendOutcomes(len) ==
    {[ret |-> n, errno |-> "none"] : n \in 0 .. len}
        \cup {[ret |-> -1, errno |-> e] : e \in {"EAGAIN", "ECONNRESET"}}

\* Variant of FirstFree: the scan runs from the last slot down.
LastFree(cl) ==
    IF \E i \in Slots : ~cl[i].connected
    THEN CHOOSE i \in Slots : ~cl[i].connected /\ \A j \in Slots : j > i => cl[j].connected
    ELSE MAX_CLIENTS

\* First index whose slot is free, MAX_CLIENTS when none is (lines 142-143).
FirstFree(cl) ==
    IF \E i \in Slots : ~cl[i].connected
    THEN CHOOSE i \in Slots : ~cl[i].connected /\ \A j \in Slots : j < i => cl[j].connected
    ELSE MAX_CLIENTS

\* Variant of InsertClient: a full table gives up its first slot.
InsertClient_evicting(cl, s, a) ==
    IF \E i \in Slots : ~cl[i].connected
    THEN [cl EXCEPT ![CHOOSE i \in Slots :
                         ~cl[i].connected /\ \A j \in Slots : j < i => cl[j].connected] =
                        [socket |-> s, connected |-> TRUE, addr |-> a]]
    ELSE [cl EXCEPT ![0] = [socket |-> s, connected |-> TRUE, addr |-> a]]

\* Variant of InsertClient: the peer is written to every free slot.
InsertClient_all(cl, s, a) ==
    [i \in Slots |-> IF cl[i].connected
                     THEN cl[i]
                     ELSE [socket |-> s, connected |-> TRUE, addr |-> a]]

\* The slot table after the insert scan of lines 141-155.
InsertClient(cl, s, a) ==
    IF FirstFree(cl) < MAX_CLIENTS
    THEN [cl EXCEPT ![FirstFree(cl)] = [socket |-> s, connected |-> TRUE, addr |-> a]]
    ELSE cl

\* Variant of EvictedByCleanup: the connected flag is left set.
EvictedByCleanup_flagKept(c) == [c EXCEPT !.socket = -1]

\* The slot record after the eviction of lines 180-182.
EvictedByCleanup(c) == [c EXCEPT !.connected = FALSE, !.socket = -1]

\* Variant of EvictedBySend: the slot is left as it was.
EvictedBySend_kept(c) == c

\* The slot record after the hard send error of line 284.
EvictedBySend(c) == [c EXCEPT !.connected = FALSE]

\* Variant of SystemTcpGetClientCount: the connections accepted and not closed.
CountOpenDescriptors == Cardinality(open)

\* SystemTcpGetClientCount, lines 301-315.
SystemTcpGetClientCount == Cardinality({i \in Slots : clients[i].connected})

\* ---- SystemInit, lines 213-245: mutex, slot init, worker task creation.
SystemInit(tcp_port, mutexOk, taskOk) ==
    /\ WorkerTurn
    /\ init_pc = "start"
    /\ IF ~mutexOk
       THEN /\ init_pc' = "done"
            /\ UNCHANGED << client_mutex, running, clients, w_pc >>
       ELSE /\ client_mutex' = "free"
            /\ clients' = [i \in Slots |->
                              [clients[i] EXCEPT !.socket = -1, !.connected = FALSE]]
            /\ IF taskOk
               THEN /\ running' = TRUE
                    /\ w_pc' = "poll"
                    /\ init_pc' = IF tcp_port > 0 THEN "server" ELSE "done"
               ELSE /\ running' = FALSE
                    /\ init_pc' = "done"
                    /\ UNCHANGED w_pc
    /\ UNCHANGED << server_socket, w_i, w_peek, client_sock, added, open, stray,
                    s_pc, s_len, s_i,
                    total_sent, s_live, s_hard, s_short, send_ret,
                    hard_errors, s_tried, s_last >>
    /\ UNCHANGED << q_pc, w_accepts, create_rets >>
    /\ UNCHANGED peerVars
    /\ UNCHANGED listening
    /\ ControlFrame

\* Variant of tcp_server_socket: a failed bind() is not noticed.
tcp_server_socket_nobind(cur, sockOk, bindOk, listenOk) ==
    IF cur >= 0 \/ ~sockOk \/ ~listenOk THEN cur ELSE ListenSock

\* system_state.server_socket after tcp_server_create, lines 55-96: cur is its
\* value at the call, the flags say whether socket(), bind() and listen()
\* succeed.
tcp_server_socket(cur, sockOk, bindOk, listenOk) ==
    IF cur >= 0 \/ ~sockOk \/ ~bindOk \/ ~listenOk THEN cur ELSE ListenSock

\* The value tcp_server_create returns (lines 57, 64, 85, 93, 100).
tcp_server_ret(cur, sockOk, bindOk, listenOk) ==
    IF cur >= 0 \/ ~sockOk \/ ~bindOk \/ ~listenOk THEN -1 ELSE 0

\* ---- tcp_server_create, lines 52-94, as SystemInit calls it (line 248): the
\* already-running test, socket(), bind() and listen(). A failure returns -1;
\* after a successful listen() the descriptor is listening and the call
\* stands before line 96.
tcp_server_create(sockOk, bindOk, listenOk) ==
    /\ WorkerTurn
    /\ init_pc = "server"
    /\ IF tcp_server_socket(server_socket, sockOk, bindOk, listenOk) # server_socket
       THEN /\ init_pc' = "store"
            /\ UNCHANGED create_rets
       ELSE /\ init_pc' = "done"
            /\ create_rets' = Append(create_rets,
                                     tcp_server_ret(server_socket, sockOk, bindOk,
                                                    listenOk))
    /\ listening' = IF server_socket < 0 /\ sockOk /\ bindOk /\ listenOk
                    THEN listening \cup {ListenSock}
                    ELSE listening
    /\ UNCHANGED << client_mutex, running, server_socket, clients, w_pc, w_i, w_peek,
                    client_sock, added, open, stray,
                    s_pc, s_len, s_i, total_sent, s_live, s_hard, s_short, send_ret,
                    hard_errors, s_tried, s_last >>
    /\ UNCHANGED << q_pc, w_accepts >>
    /\ UNCHANGED peerVars
    /\ ControlFrame

\* ---- tcp_server_create, lines 96-100: system_state.server_socket =
\* listen_sock; return 0.
tcp_server_store ==
    /\ WorkerTurn
    /\ init_pc = "store"
    /\ init_pc' = "done"
    /\ server_socket' = tcp_server_socket(server_socket, TRUE, TRUE, TRUE)
    /\ create_rets' = Append(create_rets, 0)
    /\ UNCHANGED << client_mutex, running, clients, w_pc, w_i, w_peek, client_sock,
                    added, open, stray,
                    s_pc, s_len, s_i, total_sent, s_live, s_hard, s_short, send_ret,
                    hard_errors, s_tried, s_last >>
    /\ UNCHANGED << q_pc, w_accepts >>
    /\ UNCHANGED peerVars
    /\ UNCHANGED listening
    /\ ControlFrame

\* Variant of PollsAccept: the worker calls accept_new_client on every poll.
PollsAccept_always(sock) == TRUE

\* system_task, line 198: accept_new_client is called only on a set handle.
PollsAccept(sock) == sock >= 0

\* ---- system_task, lines 196-200, with no server or nothing to accept:
\* accept_new_client is skipped or returns at line 118.
accept_none ==
    /\ WorkerTurn
    /\ w_pc = "poll"
    /\ running
    /\ w_pc' = "cleanup"
    /\ client_sock' = -1
    /\ added' = FALSE
    /\ w_accepts' = IF PollsAccept(server_socket) THEN w_accepts + 1 ELSE w_accepts
    /\ UNCHANGED << client_mutex, running, server_socket, clients, init_pc, w_i,
                    w_peek, open, stray, s_pc, s_len, s_i, total_sent, s_live,
                    s_hard, s_short, send_ret,
                    hard_errors, s_tried, s_last >>
    /\ UNCHANGED << q_pc, create_rets >>
    /\ UNCHANGED peerVars
    /\ UNCHANGED listening
    /\ ControlFrame

\* ---- accept_new_client, lines 106-163: accept() returns descriptor s and
\* the peer's address; the insert scan runs once the mutex is free.
accept_new_client(s) ==
    /\ WorkerTurn
    /\ w_pc = "poll"
    /\ running
    /\ server_socket >= 0
    /\ client_mutex = "free"
    /\ s \notin open
    /\ \A t \in Handles \ open : s <= t
    /\ client_sock' = s
    /\ w_accepts' = w_accepts + 1
    /\ clients' = InsertClient(clients, s, PeerAddr(s))
    /\ added' = (FirstFree(clients) < MAX_CLIENTS)
    /\ IF added'
       THEN /\ open' = open \cup {s}
            /\ UNCHANGED stray
       ELSE \* lines 159-162: close(client_sock)
            /\ open' = (open \cup {s}) \ {s}
            /\ UNCHANGED stray
    /\ w_pc' = "cleanup"
    /\ UNCHANGED << client_mutex, running, server_socket, init_pc, w_i, w_peek,
                    s_pc, s_len, s_i, total_sent, s_live, s_hard, s_short, send_ret,
                    hard_errors, s_tried, s_last >>
    /\ UNCHANGED << q_pc, create_rets >>
    /\ UNCHANGED peerVars
    /\ UNCHANGED listening
    /\ ControlFrame

\* ---- cleanup_disconnected_clients, line 169: take the mutex.
cleanup_lock ==
    /\ WorkerTurn
    /\ w_pc = "cleanup"
    /\ client_mutex = "free"
    /\ client_mutex' = "worker"
    /\ w_pc' = "scan"
    /\ w_i' = 0
    /\ w_peek' = NoPeek
    /\ client_sock' = -1
    /\ added' = FALSE
    /\ UNCHANGED << running, server_socket, clients, init_pc, open, stray, s_pc,
                    s_len, s_i, total_sent, s_live, s_hard, s_short, send_ret,
                    hard_errors, s_tried, s_last >>
    /\ UNCHANGED << q_pc, w_accepts, create_rets >>
    /\ UNCHANGED peerVars
    /\ UNCHANGED listening
    /\ ControlFrame

\* ---- cleanup_disconnected_clients, lines 171-185: one loop iteration;
\* r is what the peek answers when slot w_i is live.
cleanup_slot(r) ==
    /\ WorkerTurn
    /\ w_pc = "scan"
    /\ w_i < MAX_CLIENTS
    /\ w_i' = w_i + 1
    /\ IF clients[w_i].connected
       THEN /\ r \in PeekOutcomes(open, clients[w_i].socket)
            /\ (channel = "peers" /\ clients[w_i].socket \in open) =>
                  r \in TrackedPeek(clients[w_i].socket)
            /\ w_peek' = r
            /\ IF PeekEvicts(r)
               THEN /\ stray' = (stray \/ clients[w_i].socket \notin open)
                    /\ open' = open \ {clients[w_i].socket}
                    /\ clients' = [clients EXCEPT ![w_i] = EvictedByCleanup(@)]
                    /\ rx_pending' = rx_pending \ {clients[w_i].socket}
                    /\ fin' = fin \ {clients[w_i].socket}
               ELSE UNCHANGED << stray, open, clients, rx_pending, fin >>
       ELSE /\ r = NoPeek
            /\ w_peek' = NoPeek
            /\ UNCHANGED << stray, open, clients, rx_pending, fin >>
    /\ UNCHANGED << client_mutex, running, server_socket, init_pc, w_pc,
                    client_sock, added, s_pc, s_len, s_i, total_sent, s_live,
                    s_hard, s_short, send_ret,
                    hard_errors, s_tried, s_last >>
    /\ UNCHANGED << q_pc, w_accepts, create_rets, listening >>
    /\ ControlFrame

\* ---- cleanup_disconnected_clients line 187 and system_task line 206:
\* give the mutex, sleep, next cycle.
cleanup_unlock ==
    /\ WorkerTurn
    /\ w_pc = "scan"
    /\ w_i = MAX_CLIENTS
    /\ client_mutex' = "free"
    /\ w_pc' = "poll"
    /\ w_i' = 0
    /\ w_peek' = NoPeek
    /\ w_accepts' = 0
    /\ UNCHANGED << running, server_socket, clients, init_pc, client_sock, added,
                    open, stray, s_pc, s_len, s_i, total_sent, s_live, s_hard,
                    s_short, send_ret,
                    hard_errors, s_tried, s_last >>
    /\ UNCHANGED << q_pc, create_rets >>
    /\ UNCHANGED peerVars
    /\ UNCHANGED listening
    /\ ControlFrame

\* Variant of send_invalid: the argument check is missing, the loop sends
\* nothing of an empty payload and the call reports 0 bytes.
send_invalid_zero(dataNull, len) ==
    /\ channel \in ControlChannels
    /\ s_pc = "idle"
    /\ client_mutex # "null"
    /\ dataNull \/ len = 0
    /\ s_pc' = "return"
    /\ send_ret' = 0
    /\ UNCHANGED << client_mutex, running, server_socket, clients, init_pc, w_pc,
                    w_i, w_peek, client_sock, added, open, stray, s_len, s_i,
                    total_sent, s_live, s_hard, s_short,
                    hard_errors, s_tried, s_last >>
    /\ UNCHANGED << q_pc, w_accepts, create_rets >>
    /\ UNCHANGED peerVars
    /\ UNCHANGED listening
    /\ ControlFrame

\* ---- SystemTcpSendToClients, lines 268-270: invalid arguments.
send_invalid(dataNull, len) ==
    /\ channel \in ControlChannels
    /\ s_pc = "idle"
    /\ client_mutex # "null"
    /\ dataNull \/ len = 0
    /\ s_pc' = "return"
    /\ send_ret' = -1
    /\ UNCHANGED << client_mutex, running, server_socket, clients, init_pc, w_pc,
                    w_i, w_peek, client_sock, added, open, stray, s_len, s_i,
                    total_sent, s_live, s_hard, s_short,
                    hard_errors, s_tried, s_last >>
    /\ UNCHANGED << q_pc, w_accepts, create_rets >>
    /\ UNCHANGED peerVars
    /\ UNCHANGED listening
    /\ ControlFrame

\* Variant of send_lock: the broadcast starts its scan without taking the
\* mutex first.
send_lock_unguarded(len) ==
    /\ channel \in ControlChannels
    /\ s_pc = "idle"
    /\ client_mutex # "null"
    /\ len > 0
    /\ client_mutex' = "sender"
    /\ s_pc' = "scan"
    /\ s_len' = len
    /\ s_i' = 0
    /\ total_sent' = 0
    /\ s_live' = {i \in Slots : clients[i].connected}
    /\ s_hard' = {}
    /\ s_short' = FALSE
    /\ s_tried' = << >>
    /\ s_last' = NoSend
    /\ UNCHANGED << running, server_socket, clients, init_pc, w_pc, w_i, w_peek,
                    client_sock, added, open, stray, send_ret,
                    hard_errors >>
    /\ UNCHANGED << q_pc, w_accepts, create_rets >>
    /\ UNCHANGED peerVars
    /\ UNCHANGED listening
    /\ ControlFrame

\* ---- SystemTcpSendToClients, lines 272-274: take the mutex.
send_lock(len) ==
    /\ channel \in ControlChannels
    /\ s_pc = "idle"
    /\ client_mutex = "free"
    /\ len > 0
    /\ client_mutex' = "sender"
    /\ s_pc' = "scan"
    /\ s_len' = len
    /\ s_i' = 0
    /\ total_sent' = 0
    /\ s_live' = {i \in Slots : clients[i].connected}
    /\ s_hard' = {}
    /\ s_short' = FALSE
    /\ s_tried' = << >>
    /\ s_last' = NoSend
    /\ UNCHANGED << running, server_socket, clients, init_pc, w_pc, w_i, w_peek,
                    client_sock, added, open, stray, send_ret,
                    hard_errors >>
    /\ UNCHANGED << q_pc, w_accepts, create_rets >>
    /\ UNCHANGED peerVars
    /\ UNCHANGED listening
    /\ ControlFrame

\* Variant of send_slot: a hard error ends the loop.
send_slot_abort(sent) ==
    /\ channel \in ControlChannels
    /\ s_pc = "scan"
    /\ s_i < MAX_CLIENTS
    /\ IF clients[s_i].connected
       THEN /\ sent \in SendOutcomes(s_len)
            /\ s_tried' = Append(s_tried, s_i)
            /\ s_last' = sent
            /\ IF sent.ret < 0
               THEN /\ IF sent.errno # "EAGAIN"
                       THEN /\ hard_errors < MaxHardErrors
                            /\ hard_errors' = hard_errors + 1
                            /\ clients' = [clients EXCEPT ![s_i] = EvictedBySend(@)]
                            /\ s_hard' = s_hard \cup {s_i}
                            /\ s_i' = MAX_CLIENTS
                            /\ UNCHANGED s_short
                       ELSE /\ s_short' = TRUE
                            /\ s_i' = s_i + 1
                            /\ UNCHANGED << clients, s_hard, hard_errors >>
                    /\ UNCHANGED total_sent
               ELSE /\ total_sent' = total_sent + sent.ret
                    /\ s_short' = (s_short \/ sent.ret < s_len)
                    /\ s_i' = s_i + 1
                    /\ UNCHANGED << clients, s_hard, hard_errors >>
       ELSE /\ sent = [ret |-> 0, errno |-> "none"]
            /\ s_i' = s_i + 1
            /\ s_last' = NoSend
            /\ UNCHANGED << clients, total_sent, s_hard, s_short, hard_errors,
                            s_tried >>
    /\ UNCHANGED << client_mutex, running, server_socket, init_pc, w_pc, w_i,
                    w_peek, client_sock, added, open, stray, s_pc, s_len, s_live,
                    send_ret >>
    /\ UNCHANGED << q_pc, w_accepts, create_rets >>
    /\ UNCHANGED peerVars
    /\ UNCHANGED listening
    /\ ControlFrame

\* Variant of send_slot: a send that would block is handled as a hard error.
send_slot_noagain(sent) ==
    /\ channel \in ControlChannels
    /\ s_pc = "scan"
    /\ s_i < MAX_CLIENTS
    /\ s_i' = s_i + 1
    /\ IF clients[s_i].connected
       THEN /\ sent \in SendOutcomes(s_len)
            /\ s_tried' = Append(s_tried, s_i)
            /\ s_last' = sent
            /\ IF sent.ret < 0
               THEN /\ IF TRUE
                       THEN /\ hard_errors < MaxHardErrors
                            /\ hard_errors' = hard_errors + 1
                            /\ clients' = [clients EXCEPT ![s_i] = EvictedBySend(@)]
                            /\ s_hard' = s_hard \cup {s_i}
                            /\ UNCHANGED s_short
                       ELSE /\ s_short' = TRUE
                            /\ UNCHANGED << clients, s_hard, hard_errors >>
                    /\ UNCHANGED total_sent
               ELSE /\ total_sent' = total_sent + sent.ret
                    /\ s_short' = (s_short \/ sent.ret < s_len)
                    /\ UNCHANGED << clients, s_hard, hard_errors >>
       ELSE /\ sent = [ret |-> 0, errno |-> "none"]
            /\ s_last' = NoSend
            /\ UNCHANGED << clients, total_sent, s_hard, s_short, hard_errors,
                            s_tried >>
    /\ UNCHANGED << client_mutex, running, server_socket, init_pc, w_pc, w_i,
                    w_peek, client_sock, added, open, stray, s_pc, s_len, s_live,
                    send_ret >>
    /\ UNCHANGED << q_pc, w_accepts, create_rets >>
    /\ UNCHANGED peerVars
    /\ UNCHANGED listening
    /\ ControlFrame

\* ---- SystemTcpSendToClients, lines 276-294: one loop iteration; sent is
\* what send() answers when slot s_i is live.
send_slot(sent) ==
    /\ channel \in ControlChannels
    /\ s_pc = "scan"
    /\ s_i < MAX_CLIENTS
    /\ s_i' = s_i + 1
    /\ IF clients[s_i].connected
       THEN /\ sent \in SendOutcomes(s_len)
            /\ s_tried' = Append(s_tried, s_i)
            /\ s_last' = sent
            /\ IF sent.ret < 0
               THEN /\ IF sent.errno # "EAGAIN"
                       THEN /\ hard_errors < MaxHardErrors
                            /\ hard_errors' = hard_errors + 1
                            /\ clients' = [clients EXCEPT ![s_i] = EvictedBySend(@)]
                            /\ s_hard' = s_hard \cup {s_i}
                            /\ UNCHANGED s_short
                       ELSE /\ s_short' = TRUE
                            /\ UNCHANGED << clients, s_hard, hard_errors >>
                    /\ UNCHANGED total_sent
               ELSE /\ total_sent' = total_sent + sent.ret
                    /\ s_short' = (s_short \/ sent.ret < s_len)
                    /\ UNCHANGED << clients, s_hard, hard_errors >>
       ELSE /\ sent = [ret |-> 0, errno |-> "none"]
            /\ s_last' = NoSend
            /\ UNCHANGED << clients, total_sent, s_hard, s_short, hard_errors,
                            s_tried >>
    /\ UNCHANGED << client_mutex, running, server_socket, init_pc, w_pc, w_i,
                    w_peek, client_sock, added, open, stray, s_pc, s_len, s_live,
                    send_ret >>
    /\ UNCHANGED << q_pc, w_accepts, create_rets >>
    /\ UNCHANGED peerVars
    /\ UNCHANGED listening
    /\ ControlFrame

\* Variant of send_unlock: a call that sent nothing reports an error.
send_unlock_strict ==
    /\ channel \in ControlChannels
    /\ s_pc = "scan"
    /\ s_i = MAX_CLIENTS
    /\ client_mutex' = "free"
    /\ s_pc' = "return"
    /\ send_ret' = IF total_sent = 0 THEN -1 ELSE total_sent
    /\ UNCHANGED << running, server_socket, clients, init_pc, w_pc, w_i, w_peek,
                    client_sock, added, open, stray, s_len, s_i, total_sent,
                    s_live, s_hard, s_short,
                    hard_errors, s_tried >>
    /\ s_last' = NoSend
    /\ UNCHANGED << q_pc, w_accepts, create_rets >>
    /\ UNCHANGED peerVars
    /\ UNCHANGED listening
    /\ ControlFrame

\* ---- SystemTcpSendToClients, lines 296-298: give the mutex and return
\* total_sent.
send_unlock ==
    /\ channel \in ControlChannels
    /\ s_pc = "scan"
    /\ s_i = MAX_CLIENTS
    /\ client_mutex' = "free"
    /\ s_pc' = "return"
    /\ send_ret' = total_sent
    /\ UNCHANGED << running, server_socket, clients, init_pc, w_pc, w_i, w_peek,
                    client_sock, added, open, stray, s_len, s_i, total_sent,
                    s_live, s_hard, s_short,
                    hard_errors, s_tried >>
    /\ s_last' = NoSend
    /\ UNCHANGED << q_pc, w_accepts, create_rets >>
    /\ UNCHANGED peerVars
    /\ UNCHANGED listening
    /\ ControlFrame

\* ---- the caller of SystemTcpSendToClients has the value and goes on; the
\* call's locals are gone.
send_return ==
    /\ channel \in ControlChannels
    /\ s_pc = "return"
    /\ s_pc' = "idle"
    /\ send_ret' = 0
    /\ s_len' = 0
    /\ s_i' = 0
    /\ total_sent' = 0
    /\ s_live' = {}
    /\ s_hard' = {}
    /\ s_short' = FALSE
    /\ s_tried' = << >>
    /\ s_last' = NoSend
    /\ UNCHANGED << client_mutex, running, server_socket, clients, init_pc, w_pc,
                    w_i, w_peek, client_sock, added, open, stray,
                    hard_errors >>
    /\ UNCHANGED << q_pc, w_accepts, create_rets >>
    /\ UNCHANGED peerVars
    /\ UNCHANGED listening
    /\ ControlFrame

\* ---- SystemTcpGetClientCount, lines 302-304: take the mutex.
count_lock ==
    /\ channel \in ControlChannels
    /\ q_pc = "idle"
    /\ client_mutex = "free"
    /\ client_mutex' = "query"
    /\ q_pc' = "scan"
    /\ UNCHANGED << running, server_socket, clients, init_pc, w_pc, w_i, w_peek,
                    client_sock, added, open, stray, s_pc, s_len, s_i, total_sent,
                    s_live, s_hard, s_short, s_tried, s_last, hard_errors, send_ret,
                    w_accepts, create_rets >>
    /\ UNCHANGED peerVars
    /\ UNCHANGED listening
    /\ ControlFrame

\* Variant of count_unlock: the query returns without giving the mutex.
count_unlock_held ==
    /\ channel \in ControlChannels
    /\ q_pc = "scan"
    /\ client_mutex' = client_mutex
    /\ q_pc' = "idle"
    /\ UNCHANGED << running, server_socket, clients, init_pc, w_pc, w_i, w_peek,
                    client_sock, added, open, stray, s_pc, s_len, s_i, total_sent,
                    s_live, s_hard, s_short, s_tried, s_last, hard_errors, send_ret,
                    w_accepts, create_rets >>
    /\ UNCHANGED peerVars
    /\ UNCHANGED listening
    /\ ControlFrame

\* ---- SystemTcpGetClientCount, lines 306-314: the counting scan (the value
\* of SystemTcpGetClientCount in this state), give the mutex, return.
count_unlock ==
    /\ channel \in ControlChannels
    /\ q_pc = "scan"
    /\ client_mutex' = "free"
    /\ q_pc' = "idle"
    /\ UNCHANGED << running, server_socket, clients, init_pc, w_pc, w_i, w_peek,
                    client_sock, added, open, stray, s_pc, s_len, s_i, total_sent,
                    s_live, s_hard, s_short, s_tried, s_last, hard_errors, send_ret,
                    w_accepts, create_rets >>
    /\ UNCHANGED peerVars
    /\ UNCHANGED listening
    /\ ControlFrame

\* What the peek of a loop iteration can answer, over every descriptor.
AllPeeks ==
    UNION {PeekOutcomes(Handles, s) : s \in Handles} \cup PeekOutcomes({}, -1)
        \cup {NoPeek}

ControlNext ==
    \/ \E p \in {0, 8080}, m \in BOOLEAN, t \in BOOLEAN : SystemInit(p, m, t)
    \/ \E a \in BOOLEAN, b \in BOOLEAN, c \in BOOLEAN : tcp_server_create(a, b, c)
    \/ tcp_server_store
    \/ accept_none
    \/ \E s \in Handles : accept_new_client(s)
    \/ cleanup_lock
    \/ \E r \in AllPeeks : cleanup_slot(r)
    \/ cleanup_unlock
    \/ \E n \in BOOLEAN, len \in 0 .. MaxLen : send_invalid(n, len)
    \/ \E len \in 1 .. MaxLen : send_lock(len)
    \/ \E sent \in SendOutcomes(MaxLen) : send_slot(sent)
    \/ send_unlock
    \/ send_return
    \/ count_lock
    \/ count_unlock

ControlInit ==
    /\ client_mutex = "null"
    /\ running = FALSE
    /\ server_socket = -1
    /\ clients = [i \in Slots |-> ZeroClient]
    /\ init_pc = "start"
    /\ w_pc = "off"
    /\ w_i = 0
    /\ w_peek = NoPeek
    /\ client_sock = -1
    /\ added = FALSE
    /\ open = {}
    /\ stray = FALSE
    /\ s_pc = "idle"
    /\ s_len = 0
    /\ s_i = 0
    /\ total_sent = 0
    /\ s_live = {}
    /\ s_hard = {}
    /\ s_short = FALSE
    /\ s_tried = << >>
    /\ s_last = NoSend
    /\ hard_errors = 0
    /\ send_ret = 0
    /\ q_pc = "idle"
    /\ w_accepts = 0
    /\ create_rets = << >>
    /\ listening = {}
    /\ rx_pending = {}
    /\ fin = {}

\* ---- The remote end of open descriptor s sends bytes; system.c never reads
\* a client socket, so they stay in its receive queue.
peer_sends(s) ==
    /\ channel = "peers"
    /\ s \in open \ (rx_pending \cup fin)
    /\ rx_pending' = rx_pending \cup {s}
    /\ UNCHANGED << client_mutex, running, server_socket, clients, init_pc, w_pc,
                    w_i, w_peek, client_sock, added, open, stray, s_pc, s_len, s_i,
                    total_sent, s_live, s_hard, s_short, s_tried, s_last,
                    hard_errors, send_ret, q_pc, w_accepts, create_rets, listening,
                    fin >>
    /\ ControlFrame

\* ---- The remote end of open descriptor s closes its connection.
peer_closes(s) ==
    /\ channel = "peers"
    /\ s \in open \ fin
    /\ fin' = fin \cup {s}
    /\ UNCHANGED << client_mutex, running, server_socket, clients, init_pc, w_pc,
                    w_i, w_peek, client_sock, added, open, stray, s_pc, s_len, s_i,
                    total_sent, s_live, s_hard, s_short, s_tried, s_last,
                    hard_errors, send_ret, q_pc, w_accepts, create_rets, listening,
                    rx_pending >>
    /\ ControlFrame

\* Descriptors and payload lengths of the exploration that follows the remote
\* ends.
PeerHandles == 1 .. MaxPeers
PeerLens == 1 .. MaxPeerLen

PeersNext ==
    \/ \E p \in {0, 8080}, m \in BOOLEAN, t \in BOOLEAN : SystemInit(p, m, t)
    \/ \E a \in BOOLEAN, b \in BOOLEAN, c \in BOOLEAN : tcp_server_create(a, b, c)
    \/ tcp_server_store
    \/ accept_none
    \/ \E s \in PeerHandles : accept_new_client(s)
    \/ cleanup_lock
    \/ \E r \in AllPeeks : cleanup_slot(r)
    \/ cleanup_unlock
    \/ \E n \in BOOLEAN, len \in 0 .. MaxPeerLen : send_invalid(n, len)
    \/ \E len \in PeerLens : send_lock(len)
    \/ \E sent \in SendOutcomes(MaxPeerLen) : send_slot(sent)
    \/ send_unlock
    \/ send_return
    \/ count_lock
    \/ count_unlock
    \/ \E s \in PeerHandles : peer_sends(s)
    \/ \E s \in PeerHandles : peer_closes(s)

\* ------------------------------------------------------------ overlay channel
\* overlay.c: #define MAX_WS_CLIENTS 8
MAX_WS_CLIENTS == 8
\* stream.c, StreamInit: config.max_open_sockets = 13
HTTPD_MAX_OPEN_SOCKETS == 13
\* The HTTP server starts only when max_open_sockets <= CONFIG_LWIP_MAX_SOCKETS - 3,
\* and the overlay is initialized only on a started server.
CONFIG_LWIP_MAX_SOCKETS == HTTPD_MAX_OPEN_SOCKETS + 3
\* WebSocket sessions open at a time.
MaxWsSessions == 9
\* WebSocket sessions the remote ends close in one behaviour.
MaxWsCloses == 1

\* WebSocket sessions open at a time while two tasks call OverlaySendUpdate.
MaxWsPeers == 2

\* The behaviours that exercise overlay.c: one sequential caller of
\* OverlaySendUpdate, or tasks that call it side by side.
OverlayChannels == {"overlay", "updaters"}
SessionLimit == IF channel = "overlay" THEN MaxWsSessions ELSE MaxWsPeers

WsSlots == 0 .. (MAX_WS_CLIENTS - 1)
\* The descriptors OverlaySendUpdate scans (line 274).
ScanFds == 3 .. (CONFIG_LWIP_MAX_SOCKETS - 1)

\* Static initializer of overlay_state: clients[] is zero-filled.
ZeroWsClient == [fd |-> 0, connected |-> FALSE]

\* httpd_ws_get_fd_info(hd, fd) == HTTPD_WS_CLIENT_WEBSOCKET
IsWebSocket(open_ws, fd) == fd \in open_ws

\* Variant of FindFd: the scan does not look for the descriptor in the table.
FindFd_untracked(cl, fd) == MAX_WS_CLIENTS

\* Lines 278-285: the first slot holding fd, MAX_WS_CLIENTS when none does.
FindFd(cl, fd) ==
    IF \E i \in WsSlots : cl[i].fd = fd
    THEN CHOOSE i \in WsSlots : cl[i].fd = fd /\ \A j \in WsSlots : j < i => cl[j].fd # fd
    ELSE MAX_WS_CLIENTS

\* Lines 289-296: the first slot that is not connected, MAX_WS_CLIENTS when none is.
FirstFreeWs(cl) ==
    IF \E i \in WsSlots : ~cl[i].connected
    THEN CHOOSE i \in WsSlots :
            ~cl[i].connected /\ \A j \in WsSlots : j < i => cl[j].connected
    ELSE MAX_WS_CLIENTS

\* Lines 276-299: the scan's body for one descriptor that is a WebSocket,
\* over st = [cl, count].
TrackFd(st, fd) ==
    IF FindFd(st.cl, fd) < MAX_WS_CLIENTS
    THEN [cl |-> [st.cl EXCEPT ![FindFd(st.cl, fd)].connected = TRUE],
          count |-> st.count + 1]
    ELSE IF FirstFreeWs(st.cl) < MAX_WS_CLIENTS
         THEN [cl |-> [st.cl EXCEPT ![FirstFreeWs(st.cl)] =
                                       [fd |-> fd, connected |-> TRUE]],
               count |-> st.count + 1]
         ELSE [cl |-> st.cl, count |-> st.count + 1]

\* Lines 274-300: the scan from descriptor fd on, over st = [cl, count].
RECURSIVE ScanFrom(_, _, _)
ScanFrom(fd, st, open_ws) ==
    IF fd >= CONFIG_LWIP_MAX_SOCKETS THEN st
    ELSE IF IsWebSocket(open_ws, fd)
         THEN CHOOSE r \in {ScanFrom(fd + 1, t, open_ws) : t \in {TrackFd(st, fd)}} : TRUE
         ELSE ScanFrom(fd + 1, st, open_ws)

\* ws_async_send, lines 176-195: the loop body for slot i, over
\* st = [cl, count, sent, tried]; ok is whether the frame is sent to the
\* slot's client.
FanOutSlot(st, i, isWs, ok) ==
    IF st.cl[i].connected
    THEN IF isWs
         THEN IF ok
              THEN [st EXCEPT !.sent = @ + 1, !.tried = @ \cup {st.cl[i].fd}]
              ELSE [st EXCEPT !.cl[i].connected = FALSE, !.count = @ - 1,
                              !.tried = @ \cup {st.cl[i].fd}]
         ELSE [st EXCEPT !.cl[i].connected = FALSE, !.count = @ - 1]
    ELSE st

\* ws_async_send, lines 175-196: the fan-out from slot i on; fail is the set
\* of slots whose httpd_ws_send_frame_async fails.
RECURSIVE FanOutFrom(_, _, _, _)
FanOutFrom(i, st, open_ws, fail) ==
    IF i >= MAX_WS_CLIENTS THEN st
    ELSE CHOOSE r \in {FanOutFrom(i + 1, t, open_ws, fail) :
                         t \in {FanOutSlot(st, i, IsWebSocket(open_ws, st.cl[i].fd),
                                           i \notin fail)}} : TRUE

\* OverlayGetClientCount, lines 382-384.
OverlayGetClientCount == client_count

\* ---- OverlayInit, lines 204-240.
OverlayInit(serverNull, registerOk) ==
    /\ channel \in OverlayChannels
    /\ ov_pc = "start"
    /\ ov_pc' = "idle"
    /\ IF serverNull
       THEN UNCHANGED << ov_server, ov_clients, ov_initialized >>
       ELSE /\ ov_server' = TRUE
            /\ ov_clients' = [i \in WsSlots |-> [fd |-> -1, connected |-> FALSE]]
            /\ ov_initialized' = registerOk
    /\ UNCHANGED << client_count, ov_ret, ov_sent, ov_tried, ws, ws_closes, ov_heap >>
    /\ OverlayFrame

\* The two heap blocks of one OverlaySendUpdate call: the string that
\* overlay_to_json returns (line 248) and the httpd_ws_frame_t (line 257).
NoHeap ==
    [json |-> [built |-> FALSE, frees |-> 0], pkt |-> [built |-> FALSE, frees |-> 0]]

\* malloc/calloc gave block b.
Built(h, b) == [h EXCEPT ![b].built = TRUE]

\* free() is called on block b.
Freed(h, b) == [h EXCEPT ![b].frees = @ + 1]

\* Lines 248-266: both blocks exist and ws_pkt->payload points to the string.
BothBuilt == Built(Built(NoHeap, "json"), "pkt")

\* Variant of AfterAsyncSend: the payload is left to the caller.
AfterAsyncSend_leaky(h) == Freed(h, "pkt")

\* ws_async_send, lines 165-168 (no server handle) and lines 200-201 (after
\* the loop): free(ws_pkt->payload); free(ws_pkt).
AfterAsyncSend(h) == Freed(Freed(h, "json"), "pkt")

\* ---- OverlaySendUpdate, lines 243-262: not initialized, overlay NULL, or an
\* allocation (the JSON text, the frame) failed.
OverlaySendUpdate_error(overlayNull, jsonOk, pktOk) ==
    /\ channel = "overlay"
    /\ ov_pc = "idle"
    /\ ~ov_initialized \/ overlayNull \/ ~jsonOk \/ ~pktOk
    /\ ov_pc' = "failed"
    /\ ov_ret' = -1
    /\ ov_sent' = 0
    /\ ov_tried' = {}
    /\ ov_heap' = IF ~ov_initialized \/ overlayNull \/ ~jsonOk
                   THEN NoHeap
                   ELSE Freed(Built(NoHeap, "json"), "json")
    /\ UNCHANGED << ov_server, ov_initialized, ov_clients, client_count, ws,
                    ws_closes >>
    /\ OverlayFrame

\* The sets of slots whose httpd_ws_send_frame_async fails in one fan-out over
\* table cl: none, or the first slot that holds an open WebSocket.
FailChoices(cl, open_ws) ==
    {{}} \cup {{i} : i \in {j \in WsSlots :
                              /\ cl[j].connected /\ IsWebSocket(open_ws, cl[j].fd)
                              /\ \A k \in WsSlots :
                                    k < j => ~(cl[k].connected
                                               /\ IsWebSocket(open_ws, cl[k].fd))}}

\* ---- OverlaySendUpdate, lines 264-313: the descriptor scan, the return of 0
\* when it counted no WebSocket, else ws_async_send (lines 161-202) and the
\* return of client_count.
OverlaySendUpdate ==
    /\ channel = "overlay"
    /\ ov_pc = "idle"
    /\ ov_initialized
    /\ \E scanned \in {ScanFrom(3, [cl |-> ov_clients, count |-> 0], ws)} :
          IF scanned.count = 0
          THEN /\ ov_clients' = scanned.cl
               /\ client_count' = 0
               /\ ov_sent' = 0
               /\ ov_tried' = {}
               /\ ov_ret' = 0
               /\ ov_heap' = Freed(Freed(BothBuilt, "json"), "pkt")
          ELSE \E fail \in FailChoices(scanned.cl, ws) :
               \E st \in {FanOutFrom(0, [cl |-> scanned.cl, count |-> scanned.count,
                                         sent |-> 0, tried |-> {}], ws, fail)} :
                  /\ ov_clients' = st.cl
                  /\ client_count' = st.count
                  /\ ov_sent' = st.sent
                  /\ ov_tried' = st.tried
                  /\ ov_ret' = st.count
                  /\ ov_heap' = AfterAsyncSend(BothBuilt)
    /\ ov_pc' = "return"
    /\ UNCHANGED << ov_server, ov_initialized, ws, ws_closes >>
    /\ OverlayFrame

\* ---- the caller of OverlaySendUpdate goes on.
OverlaySendUpdate_return ==
    /\ channel = "overlay"
    /\ ov_pc \in {"return", "failed"}
    /\ ov_pc' = "idle"
    /\ ov_ret' = 0
    /\ ov_sent' = 0
    /\ ov_tried' = {}
    /\ ov_heap' = NoHeap
    /\ UNCHANGED << ov_server, ov_initialized, ov_clients, client_count, ws,
                    ws_closes >>
    /\ OverlayFrame

\* ---- a client completes a WebSocket handshake; the session gets the lowest
\* descriptor that is free.
WsOpen(fd) ==
    /\ channel \in OverlayChannels
    /\ ov_initialized
    /\ ov_pc = "idle"
    /\ fd \notin ws
    /\ Cardinality(ws) < SessionLimit
    /\ \A g \in ScanFds \ ws : fd <= g
    /\ ws' = ws \cup {fd}
    /\ UNCHANGED << ov_server, ov_initialized, ov_clients, client_count, ov_pc,
                    ov_ret, ov_sent, ov_tried, ws_closes, ov_heap >>
    /\ OverlayFrame

\* ---- a WebSocket session ends.
WsClose(fd) ==
    /\ channel \in OverlayChannels
    /\ fd \in ws
    /\ ov_pc = "idle"
    /\ ws_closes < MaxWsCloses
    /\ ws_closes' = ws_closes + 1
    /\ ws' = ws \ {fd}
    /\ UNCHANGED << ov_server, ov_initialized, ov_clients, client_count, ov_pc,
                    ov_ret, ov_sent, ov_tried, ov_heap >>
    /\ OverlayFrame

OverlayNext ==
    \/ \E n \in BOOLEAN, r \in BOOLEAN : OverlayInit(n, r)
    \/ \E n \in BOOLEAN, j \in BOOLEAN, a \in BOOLEAN : OverlaySendUpdate_error(n, j, a)
    \/ OverlaySendUpdate
    \/ OverlaySendUpdate_return
    \/ \E fd \in ScanFds : WsOpen(fd)
    \/ \E fd \in ScanFds : WsClose(fd)

OverlayInitState ==
    /\ ov_server = FALSE
    /\ ov_initialized = FALSE
    /\ ov_clients = [i \in WsSlots |-> ZeroWsClient]
    /\ client_count = 0
    /\ ov_pc = "start"
    /\ ov_ret = 0
    /\ ov_sent = 0
    /\ ov_tried = {}
    /\ ws = {}
    /\ ws_closes = 0
    /\ ov_heap = NoHeap

\* --------------------------------------------------------------- frame pump
\* stream.c, camera_init_internal: config.fb_count = 2
FB_COUNT == 2
\* Frames one behaviour streams in full.
MaxFrames == 3
\* StreamStop calls in one behaviour.
MaxStops == 1

\* Largest frame, in bytes, the camera delivers.
MaxFrameLen == 2
FrameLens == 1 .. MaxFrameLen

\* The frame buffers of the camera driver; 0 stands for the NULL pointer.
Buffers == 1 .. FB_COUNT

\* The results of httpd_resp_set_type and httpd_resp_send_chunk.
HttpdResults == {"ESP_OK", "ESP_ERR_HTTPD_RESP_SEND", "ESP_ERR_HTTPD_INVALID_REQ"}

\* Lines 248-265: the position after a chunk write that succeeded.
NextPart(pc) ==
    IF pc = "boundary" THEN "header"
    ELSE IF pc = "header" THEN "payload"
    ELSE "release"

\* Lines 249, 255-256, 262: what the chunk written at position pc carries when
\* _jpg_buf_len is len: the boundary marker no length, the header len as its
\* Content-Length (the %u of STREAM_PART_HEADER), the payload len bytes.
ChunkArg(pc, len) == IF pc = "boundary" THEN 0 ELSE len

\* ---- stream_handler, lines 214-224: entry, locals and client_count++.
stream_handler_enter ==
    /\ channel = "pump"
    /\ p_pc = "idle"
    /\ p_pc' = "set_type"
    /\ fb' = 0
    /\ res' = "ESP_OK"
    /\ stream_client_count' = stream_client_count + 1
    /\ p_gets' = 0
    /\ p_rets' = 0
    /\ UNCHANGED << frame_count, fb_out, fb_bad >>
    /\ jpg_buf_len' = 0
    /\ p_sent' = << >>
    /\ UNCHANGED << streaming, stream_stops, fb_len >>
    /\ PumpFrame

\* ---- lines 227-231: httpd_resp_set_type; on failure client_count-- and return.
stream_set_type(r) ==
    /\ channel = "pump"
    /\ p_pc = "set_type"
    /\ res' = r
    /\ IF r = "ESP_OK"
       THEN p_pc' = "capture" /\ UNCHANGED stream_client_count
       ELSE p_pc' = "returned" /\ stream_client_count' = stream_client_count - 1
    /\ UNCHANGED << frame_count, fb, fb_out, fb_bad, p_gets, p_rets >>
    /\ UNCHANGED << streaming, stream_stops, fb_len, jpg_buf_len, p_sent >>
    /\ PumpFrame

\* Variant of stream_capture: _jpg_buf_len is set for the first frame only.
stream_capture_stale(b, n) ==
    /\ channel = "pump"
    /\ p_pc = "capture"
    /\ frame_count < MaxFrames
    /\ b \notin fb_out
    /\ fb' = b
    /\ fb_out' = fb_out \cup {b}
    /\ p_gets' = p_gets + 1
    /\ p_pc' = "boundary"
    /\ UNCHANGED << stream_client_count, frame_count, res, fb_bad, p_rets >>
    /\ fb_len' = n
    /\ jpg_buf_len' = IF p_gets = 0 THEN n ELSE jpg_buf_len
    /\ p_sent' = << >>
    /\ UNCHANGED << streaming, stream_stops >>
    /\ PumpFrame

\* ---- lines 238-246: esp_camera_fb_get hands out buffer b, which holds a
\* frame of n bytes; _jpg_buf_len = fb->len.
stream_capture(b, n) ==
    /\ channel = "pump"
    /\ p_pc = "capture"
    /\ frame_count < MaxFrames
    /\ b \notin fb_out
    /\ fb' = b
    /\ fb_out' = fb_out \cup {b}
    /\ p_gets' = p_gets + 1
    /\ p_pc' = "boundary"
    /\ UNCHANGED << stream_client_count, frame_count, res, fb_bad, p_rets >>
    /\ fb_len' = n
    /\ jpg_buf_len' = n
    /\ p_sent' = << >>
    /\ UNCHANGED << streaming, stream_stops >>
    /\ PumpFrame

\* ---- lines 238-243: esp_camera_fb_get returns NULL; res = ESP_FAIL; break.
stream_capture_fail ==
    /\ channel = "pump"
    /\ p_pc = "capture"
    /\ fb' = 0
    /\ res' = "ESP_FAIL"
    /\ p_pc' = "cleanup"
    /\ UNCHANGED << stream_client_count, frame_count, fb_out, fb_bad, p_gets, p_rets >>
    /\ UNCHANGED << streaming, stream_stops, fb_len, jpg_buf_len, p_sent >>
    /\ PumpFrame

\* Variant of stream_send_chunk: a failed write skips the frame and the loop
\* goes round.
stream_send_chunk_retry(r) ==
    /\ channel = "pump"
    /\ p_pc \in {"boundary", "header", "payload"}
    /\ res' = r
    /\ p_pc' = IF r = "ESP_OK" THEN NextPart(p_pc) ELSE "capture"
    /\ UNCHANGED << stream_client_count, frame_count, fb, fb_out, fb_bad, p_gets,
                    p_rets >>
    /\ p_sent' = Append(p_sent, [part |-> p_pc, n |-> ChunkArg(p_pc, jpg_buf_len), res |-> r])
    /\ UNCHANGED << streaming, stream_stops, fb_len, jpg_buf_len >>
    /\ PumpFrame

\* ---- lines 249-265: one of the three httpd_resp_send_chunk calls (boundary,
\* header, payload) with result r; break when r is not ESP_OK.
stream_send_chunk(r) ==
    /\ channel = "pump"
    /\ p_pc \in {"boundary", "header", "payload"}
    /\ res' = r
    /\ p_pc' = IF r = "ESP_OK" THEN NextPart(p_pc) ELSE "cleanup"
    /\ UNCHANGED << stream_client_count, frame_count, fb, fb_out, fb_bad, p_gets,
                    p_rets >>
    /\ p_sent' = Append(p_sent, [part |-> p_pc, n |-> ChunkArg(p_pc, jpg_buf_len), res |-> r])
    /\ UNCHANGED << streaming, stream_stops, fb_len, jpg_buf_len >>
    /\ PumpFrame

\* ---- lines 268-276: esp_camera_fb_return(fb); fb = NULL; frame_count++; the
\* loop goes round.
stream_frame_done ==
    /\ channel = "pump"
    /\ p_pc = "release"
    /\ fb_bad' = (fb_bad \/ fb \notin fb_out)
    /\ fb_out' = fb_out \ {fb}
    /\ p_rets' = p_rets + 1
    /\ fb' = 0
    /\ frame_count' = frame_count + 1
    /\ p_pc' = "capture"
    /\ UNCHANGED << stream_client_count, res, p_gets >>
    /\ UNCHANGED << streaming, stream_stops, fb_len, jpg_buf_len, p_sent >>
    /\ PumpFrame

\* Variant of stream_cleanup: the buffer held at the break is not returned.
stream_cleanup_leaky ==
    /\ channel = "pump"
    /\ p_pc = "cleanup"
    /\ stream_client_count' = stream_client_count - 1
    /\ p_pc' = "returned"
    /\ UNCHANGED << frame_count, fb, res, p_gets, fb_bad, fb_out, p_rets >>
    /\ UNCHANGED << streaming, stream_stops, fb_len, jpg_buf_len, p_sent >>
    /\ PumpFrame

\* ---- lines 280-287: after the loop, if (fb) esp_camera_fb_return(fb);
\* client_count--; return res.
stream_cleanup ==
    /\ channel = "pump"
    /\ p_pc = "cleanup"
    /\ IF fb # 0
       THEN /\ fb_bad' = (fb_bad \/ fb \notin fb_out)
            /\ fb_out' = fb_out \ {fb}
            /\ p_rets' = p_rets + 1
       ELSE UNCHANGED << fb_bad, fb_out, p_rets >>
    /\ stream_client_count' = stream_client_count - 1
    /\ p_pc' = "returned"
    /\ UNCHANGED << frame_count, fb, res, p_gets >>
    /\ UNCHANGED << streaming, stream_stops, fb_len, jpg_buf_len, p_sent >>
    /\ PumpFrame

\* ---- the server task takes the next request for the stream URI.
stream_handler_return ==
    /\ channel = "pump"
    /\ p_pc = "returned"
    /\ p_pc' = "idle"
    /\ fb' = 0
    /\ res' = "ESP_OK"
    /\ p_gets' = 0
    /\ p_rets' = 0
    /\ UNCHANGED << stream_client_count, frame_count, fb_out, fb_bad >>
    /\ jpg_buf_len' = 0
    /\ p_sent' = << >>
    /\ UNCHANGED << streaming, stream_stops, fb_len >>
    /\ PumpFrame

\* camera_init, line 207: stream_handler is registered by StreamInit only after
\* camera_init has succeeded (lines 325-328, 349-355), so the flag is set in
\* every state in which a request can reach the handler.
camera_initialized == TRUE

\* ---- StreamStart, lines 383-392, called by app_main or any other task.
StreamStart ==
    /\ channel = "pump"
    /\ camera_initialized
    /\ streaming' = TRUE
    /\ UNCHANGED << stream_client_count, frame_count, p_pc, fb, res, fb_out, fb_bad,
                    p_gets, p_rets, stream_stops, fb_len, jpg_buf_len, p_sent >>
    /\ PumpFrame

\* ---- StreamStop, lines 394-397, called by any task.
StreamStop ==
    /\ channel = "pump"
    /\ stream_stops < MaxStops
    /\ streaming' = FALSE
    /\ stream_stops' = stream_stops + 1
    /\ UNCHANGED << stream_client_count, frame_count, p_pc, fb, res, fb_out, fb_bad,
                    p_gets, p_rets, fb_len, jpg_buf_len, p_sent >>
    /\ PumpFrame

PumpNext ==
    \/ stream_handler_enter
    \/ \E r \in HttpdResults : stream_set_type(r)
    \/ \E b \in Buffers, n \in FrameLens : stream_capture(b, n)
    \/ stream_capture_fail
    \/ \E r \in HttpdResults : stream_send_chunk(r)
    \/ stream_frame_done
    \/ stream_cleanup
    \/ stream_handler_return
    \/ StreamStart
    \/ StreamStop

\* Static initializer of stream_state, lines 111-127.
PumpInit ==
    /\ stream_client_count = 0
    /\ frame_count = 0
    /\ p_pc = "idle"
    /\ fb = 0
    /\ res = "ESP_OK"
    /\ fb_out = {}
    /\ fb_bad = FALSE
    /\ p_gets = 0
    /\ p_rets = 0
    /\ streaming = FALSE
    /\ stream_stops = 0
    /\ fb_len = 0
    /\ jpg_buf_len = 0
    /\ p_sent = << >>

\* ---------------------------------------------------- overlay serialization
\* overlay.h: #define OVERLAY_MAX_TEXT 10
OVERLAY_MAX_TEXT == 10
\* overlay.h: #define OVERLAY_MAX_SHAPES 20
OVERLAY_MAX_SHAPES == 20
\* The largest text_count and shape_count a caller passes.
MaxTextCount == 11
MaxShapeCount == 21
\* Variations of the elements' field values.
MaxSeed == 1

\* overlay_shape_type_t, overlay.h lines 23-27, in the order of its values.
ShapeTypes == << "OVERLAY_SHAPE_LINE", "OVERLAY_SHAPE_RECT", "OVERLAY_SHAPE_CIRCLE" >>

\* The NULL overlay pointer and the NULL string.
NullOverlay == [text_count |-> -1]
NullJson == [null |-> TRUE]

\* An overlay_data_t as a caller fills it: the arrays always have
\* OVERLAY_MAX_TEXT and OVERLAY_MAX_SHAPES entries, the counts are uint8_t.
MakeOverlay(tc, sc, seed) ==
    [text_count |-> tc,
     texts |-> [i \in 0 .. (OVERLAY_MAX_TEXT - 1) |->
                  [content |-> i + seed, x |-> 10 * i + seed, y |-> i,
                   color |-> seed, size |-> 1 + seed]],
     shape_count |-> sc,
     shapes |-> [i \in 0 .. (OVERLAY_MAX_SHAPES - 1) |->
                   [type |-> ShapeTypes[((i + seed) % 3) + 1],
                    x1 |-> i, y1 |-> i + 1, x2 |-> i + 2, y2 |-> i + 3,
                    radius |-> i + 4, color |-> i + seed, width |-> 1 + seed,
                    fill |-> (i % 2 = 0)]]]

\* Lines 48-54: the JSON object of one text element.
TextJson(t) ==
    [content |-> t.content, x |-> t.x, y |-> t.y, color |-> t.color,
     size |-> t.size]

\* Lines 61-92: the JSON object of one shape.
ShapeJson(shape) ==
    IF shape.type = "OVERLAY_SHAPE_LINE"
    THEN [type |-> "line", x1 |-> shape.x1, y1 |-> shape.y1, x2 |-> shape.x2,
          y2 |-> shape.y2, width |-> shape.width, color |-> shape.color]
    ELSE IF shape.type = "OVERLAY_SHAPE_RECT"
    THEN [type |-> "rect", x |-> shape.x1, y |-> shape.y1, w |-> shape.x2,
          h |-> shape.y2, fill |-> shape.fill, color |-> shape.color]
    ELSE [type |-> "circle", x |-> shape.x1, y |-> shape.y1, r |-> shape.radius,
          fill |-> shape.fill, color |-> shape.color]

\* Variant of TextArrayFrom: the loop stops one element short of the cap.
RECURSIVE TextArrayFrom_short(_, _, _)
TextArrayFrom_short(i, ov, arr) ==
    IF i < ov.text_count /\ i < OVERLAY_MAX_TEXT - 1
    THEN TextArrayFrom_short(i + 1, ov, Append(arr, TextJson(ov.texts[i])))
    ELSE arr

\* Lines 46-55: the loop that fills text_array, from index i on.
RECURSIVE TextArrayFrom(_, _, _)
TextArrayFrom(i, ov, arr) ==
    IF i < ov.text_count /\ i < OVERLAY_MAX_TEXT
    THEN TextArrayFrom(i + 1, ov, Append(arr, TextJson(ov.texts[i])))
    ELSE arr

\* Lines 59-94: the loop that fills shapes_array, from index i on.
RECURSIVE ShapeArrayFrom(_, _, _)
ShapeArrayFrom(i, ov, arr) ==
    IF i < ov.shape_count /\ i < OVERLAY_MAX_SHAPES
    THEN ShapeArrayFrom(i + 1, ov, Append(arr, ShapeJson(ov.shapes[i])))
    ELSE arr

\* overlay_to_json, lines 35-102: the document the returned string encodes;
\* rootOk is whether cJSON_CreateObject gave the root object, printOk whether
\* cJSON_PrintUnformatted gave the string.
overlay_to_json(ov, rootOk, printOk) ==
    IF ov = NullOverlay \/ ~rootOk \/ ~printOk
    THEN NullJson
    ELSE [text |-> TextArrayFrom(0, ov, << >>),
          shapes |-> ShapeArrayFrom(0, ov, << >>)]

\* ---- the caller passes NULL, or fills the texts of an overlay_data_t.
overlay_fill_texts(isNull, tc, seed) ==
    /\ channel = "json"
    /\ j_pc = "idle"
    /\ j_pc' = IF isNull THEN "filled" ELSE "texts"
    /\ overlay' = IF isNull THEN NullOverlay ELSE MakeOverlay(tc, 0, seed)
    /\ UNCHANGED json
    /\ JsonFrame

\* ---- the caller fills the shapes of the overlay_data_t.
overlay_fill_shapes(sc) ==
    /\ channel = "json"
    /\ j_pc = "texts"
    /\ j_pc' = "filled"
    /\ overlay' = [overlay EXCEPT !.shape_count = sc]
    /\ UNCHANGED json
    /\ JsonFrame

\* ---- OverlaySendUpdate, line 248: json = overlay_to_json(overlay).
overlay_serialize(rootOk, printOk) ==
    /\ channel = "json"
    /\ j_pc = "filled"
    /\ j_pc' = "done"
    /\ json' = overlay_to_json(overlay, rootOk, printOk)
    /\ UNCHANGED overlay
    /\ JsonFrame

\* ---- OverlaySendUpdate, lines 249-313: the string is used and freed.
overlay_json_free ==
    /\ channel = "json"
    /\ j_pc = "done"
    /\ j_pc' = "idle"
    /\ overlay' = NullOverlay
    /\ json' = NullJson
    /\ JsonFrame

JsonNext ==
    \/ \E n \in BOOLEAN, tc \in 0 .. MaxTextCount, seed \in 0 .. MaxSeed :
          overlay_fill_texts(n, tc, seed)
    \/ \E sc \in 0 .. MaxShapeCount : overlay_fill_shapes(sc)
    \/ \E r \in BOOLEAN, q \in BOOLEAN : overlay_serialize(r, q)
    \/ overlay_json_free

JsonInit ==
    /\ j_pc = "idle"
    /\ overlay = NullOverlay
    /\ json = NullJson

\* -------------------------------------------------------- throughput counters
\* uint32_t (lines 452-453): a value is the pair << high, low >> of its two
\* 16-bit halves, so that a sum is computed in the width of the type.
Half == 65536
\* app_throughput_add_rx and app_throughput_add_tx calls in one behaviour.
MaxAdds == 2

\* The halves that the byte amounts of the calls are made of.
HalfValues == {0, 1, Half - 1}
Amounts == HalfValues \X HalfValues

\* a + b in uint32_t arithmetic: the carry out of the high half is dropped.
U32Add(a, b) ==
    << (a[1] + b[1] + ((a[2] + b[2]) \div Half)) % Half, (a[2] + b[2]) % Half >>

\* a < b as unsigned 32-bit values.
U32Less(a, b) == a[1] < b[1] \/ (a[1] = b[1] /\ a[2] < b[2])

\* ---- app_throughput_add_rx, lines 463-465.
app_throughput_add_rx(bytes) ==
    /\ channel = "throughput"
    /\ tp_adds < MaxAdds
    /\ tp_adds' = tp_adds + 1
    /\ total_rx_bytes' = U32Add(total_rx_bytes, bytes)
    /\ UNCHANGED << total_tx_bytes, monVars >>
    /\ ThroughputFrame

\* ---- app_throughput_add_tx, lines 467-469.
app_throughput_add_tx(bytes) ==
    /\ channel = "throughput"
    /\ tp_adds < MaxAdds
    /\ tp_adds' = tp_adds + 1
    /\ total_tx_bytes' = U32Add(total_tx_bytes, bytes)
    /\ UNCHANGED << total_rx_bytes, monVars >>
    /\ ThroughputFrame

\* a - b in uint32_t arithmetic: the borrow out of the high half is dropped.
U32Sub(a, b) ==
    << (a[1] - b[1] - (IF a[2] < b[2] THEN 1 ELSE 0) + Half) % Half,
       (a[2] - b[2] + Half) % Half >>

\* ---- throughput_monitor_task, line 581: rx_bytes_diff = total - last.
monitor_rx_diff ==
    /\ channel = "throughput"
    /\ m_pc = "rx_diff"
    /\ m_pc' = "tx_diff"
    /\ sum_rx' = U32Add(sum_rx, U32Sub(total_rx_bytes, last_rx_bytes))
    /\ UNCHANGED << total_rx_bytes, total_tx_bytes, tp_adds, last_rx_bytes,
                    last_tx_bytes, sum_tx >>
    /\ ThroughputFrame

\* ---- throughput_monitor_task, line 582: tx_bytes_diff = total - last.
monitor_tx_diff ==
    /\ channel = "throughput"
    /\ m_pc = "tx_diff"
    /\ m_pc' = "rx_last"
    /\ sum_tx' = U32Add(sum_tx, U32Sub(total_tx_bytes, last_tx_bytes))
    /\ UNCHANGED << total_rx_bytes, total_tx_bytes, tp_adds, last_rx_bytes,
                    last_tx_bytes, sum_rx >>
    /\ ThroughputFrame

\* ---- throughput_monitor_task, line 599: last_rx_bytes = total_rx_bytes,
\* read again.
monitor_rx_last ==
    /\ channel = "throughput"
    /\ m_pc = "rx_last"
    /\ m_pc' = "tx_last"
    /\ last_rx_bytes' = total_rx_bytes
    /\ UNCHANGED << total_rx_bytes, total_tx_bytes, tp_adds, last_tx_bytes, sum_rx,
                    sum_tx >>
    /\ ThroughputFrame

\* ---- throughput_monitor_task, lines 600-603: last_tx_bytes = total_tx_bytes,
\* read again; sleep; the loop goes round.
monitor_tx_last ==
    /\ channel = "throughput"
    /\ m_pc = "tx_last"
    /\ m_pc' = "rx_diff"
    /\ last_tx_bytes' = total_tx_bytes
    /\ UNCHANGED << total_rx_bytes, total_tx_bytes, tp_adds, last_rx_bytes, sum_rx,
                    sum_tx >>
    /\ ThroughputFrame

ThroughputNext ==
    \/ \E bytes \in Amounts : app_throughput_add_rx(bytes)
    \/ \E bytes \in Amounts : app_throughput_add_tx(bytes)
    \/ monitor_rx_diff
    \/ monitor_tx_diff
    \/ monitor_rx_last
    \/ monitor_tx_last

\* app_throughput = {0}, line 460.
ThroughputInit ==
    /\ total_rx_bytes = << 0, 0 >>
    /\ total_tx_bytes = << 0, 0 >>
    /\ tp_adds = 0
    /\ last_rx_bytes = << 0, 0 >>
    /\ last_tx_bytes = << 0, 0 >>
    /\ m_pc = "rx_diff"
    /\ sum_rx = << 0, 0 >>
    /\ sum_tx = << 0, 0 >>

\* ------------------------------------------------- frame pumps side by side
\* One stream_handler instance runs per open /stream request, each in its own
\* thread of control; stream_state.client_count++ and client_count-- are a
\* load, an add and a store of an int that no lock protects.
\* stream_handler instances that run at a time.
MaxHandlers == 2
\* stream_handler calls in one behaviour.
MaxEnters == 3

Handlers == 1 .. MaxHandlers

\* ---- stream_handler, lines 214-224: entry; the load of client_count++.
handler_enter(p) ==
    /\ channel = "pumps"
    /\ h_pc[p] \in {"idle", "returned"}
    /\ h_enters < MaxEnters
    /\ h_enters' = h_enters + 1
    /\ h_reg' = [h_reg EXCEPT ![p] = stream_client_count]
    /\ h_pc' = [h_pc EXCEPT ![p] = "inc"]
    /\ UNCHANGED stream_client_count
    /\ HandlersFrame

\* ---- line 224: the store of client_count++.
handler_inc_store(p) ==
    /\ channel = "pumps"
    /\ h_pc[p] = "inc"
    /\ stream_client_count' = h_reg[p] + 1
    /\ h_pc' = [h_pc EXCEPT ![p] = "running"]
    /\ UNCHANGED << h_reg, h_enters >>
    /\ HandlersFrame

\* ---- lines 227-229 (httpd_resp_set_type failed) or lines 236-284 (the loop
\* has ended and the buffer is returned): the load of client_count--.
handler_leave(p) ==
    /\ channel = "pumps"
    /\ h_pc[p] = "running"
    /\ h_reg' = [h_reg EXCEPT ![p] = stream_client_count]
    /\ h_pc' = [h_pc EXCEPT ![p] = "dec"]
    /\ UNCHANGED << stream_client_count, h_enters >>
    /\ HandlersFrame

\* ---- lines 229-230 or 284-287: the store of client_count--; return res.
handler_dec_store(p) ==
    /\ channel = "pumps"
    /\ h_pc[p] = "dec"
    /\ stream_client_count' = h_reg[p] - 1
    /\ h_pc' = [h_pc EXCEPT ![p] = "returned"]
    /\ UNCHANGED << h_reg, h_enters >>
    /\ HandlersFrame

\* StreamGetClientCount, lines 403-405.
StreamGetClientCount == stream_client_count

HandlersNext ==
    \/ \E p \in Handlers : handler_enter(p)
    \/ \E p \in Handlers : handler_inc_store(p)
    \/ \E p \in Handlers : handler_leave(p)
    \/ \E p \in Handlers : handler_dec_store(p)

HandlersInit ==
    /\ h_pc = [p \in Handlers |-> "idle"]
    /\ h_reg = [p \in Handlers |-> 0]
    /\ h_enters = 0

\* ------------------------------------- OverlaySendUpdate called side by side
\* overlay.c takes no lock: a task inside OverlaySendUpdate can be preempted
\* by another task that calls it.  The steps are the reset of client_count,
\* the descriptor scan and ws_async_send, each on the shared overlay_state.
\* Tasks that call OverlaySendUpdate.
MaxUpdaters == 2

Updaters == 1 .. MaxUpdaters

\* ---- OverlaySendUpdate, lines 243-271: the checks pass, the payload is
\* built; overlay_state.client_count = 0.
update_reset(t) ==
    /\ channel = "updaters"
    /\ ov_initialized
    /\ u_pc[t] = "idle"
    /\ u_pc' = [u_pc EXCEPT ![t] = "scan"]
    /\ client_count' = 0
    /\ UNCHANGED ov_clients
    /\ UpdaterFrame

\* ---- lines 274-307: the descriptor scan, counting on in client_count; the
\* return of 0 when client_count is 0 after it.
update_scan(t) ==
    /\ channel = "updaters"
    /\ u_pc[t] = "scan"
    /\ \E scanned \in {ScanFrom(3, [cl |-> ov_clients, count |-> client_count], ws)} :
          /\ ov_clients' = scanned.cl
          /\ client_count' = scanned.count
          /\ u_pc' = [u_pc EXCEPT ![t] = IF scanned.count = 0 THEN "idle"
                                                             ELSE "fanout"]
    /\ UpdaterFrame

\* ---- lines 310-312: ws_async_send (lines 161-202) and the return of
\* client_count.
update_fanout(t) ==
    /\ channel = "updaters"
    /\ u_pc[t] = "fanout"
    /\ \E fail \in FailChoices(ov_clients, ws) :
       \E st \in {FanOutFrom(0, [cl |-> ov_clients, count |-> client_count,
                                 sent |-> 0, tried |-> {}], ws, fail)} :
          /\ ov_clients' = st.cl
          /\ client_count' = st.count
    /\ u_pc' = [u_pc EXCEPT ![t] = "idle"]
    /\ UpdaterFrame

UpdatersNext ==
    \/ \E n \in BOOLEAN, r \in BOOLEAN : OverlayInit(n, r)
    \/ \E fd \in ScanFds : WsOpen(fd)
    \/ \E fd \in ScanFds : WsClose(fd)
    \/ \E t \in Updaters : update_reset(t)
    \/ \E t \in Updaters : update_scan(t)
    \/ \E t \in Updaters : update_fanout(t)

UpdatersInit == u_pc = [t \in Updaters |-> "idle"]

\* ------------------------------------------------------------ specifications
Channels == {"control", "overlay", "pump", "json", "pumps", "updaters"}

Init ==
    /\ channel \in Channels
    /\ ControlInit
    /\ OverlayInitState
    /\ PumpInit
    /\ JsonInit
    /\ HandlersInit
    /\ UpdatersInit
    /\ ThroughputInit

Next ==
    \/ ControlNext
    \/ OverlayNext
    \/ PumpNext
    \/ JsonNext
    \/ HandlersNext
    \/ UpdatersNext

Spec == Init /\ [][Next]_vars

\* The control channel alone.
InitControl == Init /\ channel = "control"
SpecControl == InitControl /\ [][ControlNext]_vars

\* The overlay channel alone.
InitOverlay == Init /\ channel = "overlay"
SpecOverlay == InitOverlay /\ [][OverlayNext]_vars

\* The frame pump alone.
InitPump == Init /\ channel = "pump"
SpecPump == InitPump /\ [][PumpNext]_vars

\* The overlay serialization alone.
InitJson == Init /\ channel = "json"
SpecJson == InitJson /\ [][JsonNext]_vars

\* Frame pumps side by side.
InitHandlers == Init /\ channel = "pumps"
SpecHandlers == InitHandlers /\ [][HandlersNext]_vars

\* Tasks calling OverlaySendUpdate side by side.
InitUpdaters == Init /\ channel = "updaters"
SpecUpdaters == InitUpdaters /\ [][UpdatersNext]_vars

\* The control channel with the remote ends followed.
InitPeers ==
    /\ channel = "peers"
    /\ ControlInit
    /\ OverlayInitState
    /\ PumpInit
    /\ JsonInit
    /\ HandlersInit
    /\ UpdatersInit
    /\ ThroughputInit
SpecPeers == InitPeers /\ [][PeersNext]_vars

\* The throughput counters alone.
InitThroughput ==
    /\ channel = "throughput"
    /\ ControlInit
    /\ OverlayInitState
    /\ PumpInit
    /\ JsonInit
    /\ HandlersInit
    /\ UpdatersInit
    /\ ThroughputInit
SpecThroughput == InitThroughput /\ [][ThroughputNext]_vars

\* The control channel under fair scheduling.  Every task is a FreeRTOS task
\* that is scheduled again and again, so a step that stays possible is taken
\* (weak fairness on the steps of the worker loop, of a broadcast or query
\* that has started, and on the return to the caller); xSemaphoreTake with
\* portMAX_DELAY queues the worker on the mutex and the kernel hands a given
\* mutex to a waiting task, so the worker's take at line 169 is not passed
\* over for ever (strong fairness on cleanup_lock).  Nothing is assumed about
\* new calls, connections or the remote ends.
SpecPeersFair ==
    /\ SpecPeers
    /\ WF_vars(\/ accept_none
               \/ \E s \in PeerHandles : accept_new_client(s)
               \/ \E r \in AllPeeks : cleanup_slot(r)
               \/ cleanup_unlock)
    /\ SF_vars(cleanup_lock)
    /\ WF_vars(\/ \E sent \in SendOutcomes(MaxPeerLen) : send_slot(sent)
               \/ send_unlock
               \/ send_return)
    /\ WF_vars(count_unlock)

\* The frame pump with the server task always scheduled: every call the handler
\* makes returns.
SpecPumpFair == SpecPump /\ WF_vars(PumpNext)

C2_CountWithinCapacity == OverlayGetClientCount <= MAX_WS_CLIENTS

\* C3: an accept poll that takes a connection while all four slots are live
\* inserts nothing: no slot record changes, added stays false, and the new
\* descriptor is closed in the same call, so the open descriptors are those
\* of before.
C3_FullTableRejects ==
    [][(/\ w_pc = "poll"
        /\ w_pc' = "cleanup"
        /\ client_sock' # -1
        /\ \A i \in Slots : clients[i].connected)
       => (/\ clients' = clients
           /\ ~added'
           /\ client_sock' \notin open'
           /\ open' = open)]_vars

\* accept_new_client has just turned a connection away from a full table.
C3_Witness ==
    /\ w_pc = "cleanup"
    /\ client_sock # -1
    /\ ~added
    /\ client_sock \notin open
    /\ \A i \in Slots : clients[i].connected /\ clients[i].socket \in open

C5_NoPeerReturnsZero ==
    /\ (s_pc = "return" /\ s_len > 0 /\ s_live = {}) => send_ret = 0
    /\ (ov_pc = "return" /\ ws = {}) => ov_ret = 0

\* OverlaySendUpdate returns 0 with no session open while the table still
\* holds a slot of a session that has ended.
C5_Witness ==
    /\ ov_pc = "return"
    /\ ws = {}
    /\ ov_ret = 0
    /\ \E i \in WsSlots : ov_clients[i].connected

\* C6: the liveness pass that peeks 0 on a live slot marks the slot free,
\* forgets its descriptor and closes it in that pass, and close() is never
\* called on a descriptor that is not open: none is closed a second time by a
\* later pass, broadcast or accept.
C6_GracefulCloseOnce ==
    /\ ~stray
    /\ (w_pc = "scan" /\ w_peek.ret = 0)
          => /\ ~clients[w_i - 1].connected
             /\ clients[w_i - 1].socket = -1
             /\ w_peek.sock \notin open

\* The pass has just evicted a peer that closed gracefully, next to a peer
\* that stays.
C6_Witness ==
    /\ w_pc = "scan"
    /\ w_peek.ret = 0
    /\ w_peek.sock \in Handles
    /\ \E i \in Slots : clients[i].connected /\ i < w_i - 1

\* The positions of stream_handler inside its while loop.
PumpLoop == {"capture", "boundary", "header", "payload", "release"}

\* C7: the frame pump leaves its loop on the first failed capture and on the
\* first failed chunk write: the step that fails goes to the code after the
\* loop, no position of the loop is taken with a failure in res, and from
\* there the handler returns.
C7_PumpStopsOnFailure ==
    /\ [][(p_pc \in PumpLoop /\ res' # "ESP_OK") => p_pc' = "cleanup"]_vars
    /\ [](p_pc \in PumpLoop => res = "ESP_OK")
    /\ [][(p_pc = "cleanup" /\ p_pc' # p_pc) => p_pc' = "returned"]_vars
    /\ (p_pc = "cleanup" ~> p_pc = "returned")

\* The handler has returned a failure after streaming a frame in full.
C7_Witness ==
    /\ p_pc = "returned"
    /\ res # "ESP_OK"
    /\ frame_count >= 1
    /\ p_gets >= 2

\* C8: every buffer the pump acquires is returned exactly once: no buffer is
\* returned that is not handed out, never more than one is held, after a
\* failed capture none is held and none is returned, and when the handler
\* returns every buffer of the call has been returned.
C8_FrameReturnedOnce ==
    /\ ~fb_bad
    /\ Cardinality(fb_out) <= 1
    /\ p_rets <= p_gets
    /\ p_gets - p_rets = Cardinality(fb_out)
    /\ (p_pc = "cleanup" /\ res = "ESP_FAIL") => (fb = 0 /\ fb_out = {})
    /\ p_pc = "returned" => (fb_out = {} /\ p_rets = p_gets)

\* The handler has returned after a chunk write of its second frame failed.
C8_Witness ==
    /\ p_pc = "returned"
    /\ res = "ESP_ERR_HTTPD_RESP_SEND"
    /\ p_gets = 2
    /\ p_rets = 2
    /\ frame_count = 1

\* C9: an accepted connection goes to the lowest-index free slot and no other
\* slot changes; an eviction of the liveness pass changes the slot it is at
\* and no other, so the next accepted connection takes that slot.
C9_LowestFreeSlot ==
    [][/\ (/\ w_pc = "poll"
           /\ w_pc' = "cleanup"
           /\ client_sock' # -1
           /\ \E i \in Slots : ~clients[i].connected)
          => \E i \in Slots :
                /\ ~clients[i].connected
                /\ \A j \in Slots : j < i => clients[j].connected
                /\ clients'[i].socket = client_sock'
                /\ clients'[i].connected
                /\ \A k \in Slots \ {i} : clients'[k] = clients[k]
       /\ (w_pc = "scan" /\ w_i' = w_i + 1)
          => \A k \in Slots \ {w_i} : clients'[k] = clients[k]]_vars

\* The connection just accepted sits in the slot of index 2 with every other
\* slot live: that slot had been freed while its neighbours stayed.
C9_Witness ==
    /\ w_pc = "cleanup"
    /\ added
    /\ clients[2].socket = client_sock
    /\ \A i \in Slots : clients[i].connected
    /\ ~stray

\* C10: a call of OverlaySendUpdate that passes its argument and allocation
\* checks returns the number of WebSocket clients the frame was sent to in
\* that call.
C10_ReturnIsSentCount == ov_pc = "return" => ov_ret = ov_sent

\* C11: OverlayGetClientCount returns the number of active WebSocket
\* connections: between calls of OverlaySendUpdate, and at the return of one,
\* it equals the number of overlay slots flagged connected and is not negative.
C11_CountIsConnectedSlots ==
    (ov_initialized /\ ov_pc \in {"idle", "return"}) =>
        /\ OverlayGetClientCount =
              Cardinality({i \in WsSlots : ov_clients[i].connected})
        /\ OverlayGetClientCount >= 0

\* C12: StreamStop stops capturing and streaming: once StreamStop has returned
\* and until StreamStart is called again (streaming is false after a stop), no
\* step of a running pump acquires a frame or writes a part of one.
C12_StopHaltsPump ==
    [][(stream_stops > 0 /\ ~streaming) =>
          /\ p_gets' # p_gets + 1
          /\ ~(p_pc \in {"boundary", "header", "payload"} /\ p_pc' # p_pc)]_vars

\* C13: a call of OverlaySendUpdate made while at most MAX_WS_CLIENTS WebSocket
\* connections are open refreshes the slots before the fan-out, so that the
\* frame is sent to every connection open at the call.
C13_FrameReachesEveryOpenConnection ==
    (ov_pc = "return" /\ Cardinality(ws) <= MAX_WS_CLIENTS) => ws \subseteq ov_tried

\* C14: SystemTcpSendToClients returns the number of bytes sent, or -1 on
\* error: a call with data = NULL or len = 0 returns -1, calls send() on no
\* slot and changes no slot record; a call with valid arguments returns a
\* value that is not negative, whatever send() answered.
C14_ReturnValue ==
    /\ [][(s_pc = "idle" /\ s_pc' = "return") =>
              /\ send_ret' = -1
              /\ s_tried' = << >>
              /\ clients' = clients
              /\ open' = open]_vars
    /\ [](s_pc = "return" => IF s_len = 0 THEN send_ret = -1 ELSE send_ret >= 0)

\* A call with invalid arguments has returned while peers are live.
C14_Witness ==
    /\ s_pc = "return"
    /\ s_len = 0
    /\ send_ret = -1
    /\ \E i \in Slots : clients[i].connected

\* C20: within one SystemTcpSendToClients call send() is called exactly once
\* on every slot that is live when the scan reaches it, in ascending slot
\* order, and on no free slot; a hard error on a slot does not keep the scan
\* from the live slots after it.
C20_OneSendPerLiveSlot ==
    s_pc \in {"scan", "return"} =>
        /\ \A k \in 1 .. Len(s_tried) - 1 : s_tried[k] < s_tried[k + 1]
        /\ {s_tried[k] : k \in 1 .. Len(s_tried)} = {i \in s_live : i < s_i}
        /\ (s_pc = "return" /\ s_len > 0) => s_i = MAX_CLIENTS

\* A call has returned after a hard error on a slot that has a live slot
\* after it and a free slot in the table.
C20_Witness ==
    /\ s_pc = "return"
    /\ \E i \in s_hard : \E j \in s_live : i < j
    /\ \E i \in Slots : i \notin s_live /\ i < MAX_CLIENTS - 1
    /\ Len(s_tried) >= 2

\* C17: client_mutex is held only across in-memory slot scans and mutations:
\* no step that calls send(), the peek recv() or close() on a client
\* descriptor is taken while a task holds the mutex.
C17_NoSocketCallUnderMutex ==
    [][(\/ Len(s_tried') = Len(s_tried) + 1
        \/ (w_i' = w_i + 1 /\ w_peek' # NoPeek)
        \/ (open' # open /\ open' \subseteq open))
          => client_mutex = "free"]_vars

\* C18: the insert scan of accept_new_client, the liveness pass, the broadcast
\* and the live-count query touch the slot records only while holding
\* client_mutex: at most one of the worker, the broadcaster and the query task
\* is inside its slot scan, the task inside is the holder of the mutex, the
\* insert scan runs only when none of them is, and a slot record changes only
\* in a step of the holder or in the insert scan.
C18_ScansExcludeEachOther ==
    /\ [](/\ Cardinality({t \in {"worker", "sender", "query"} :
                              \/ (t = "worker" /\ w_pc = "scan")
                              \/ (t = "sender" /\ s_pc = "scan")
                              \/ (t = "query" /\ q_pc = "scan")}) <= 1
          /\ (w_pc = "scan" => client_mutex = "worker")
          /\ (s_pc = "scan" => client_mutex = "sender")
          /\ (q_pc = "scan" => client_mutex = "query"))
    /\ [][(w_pc = "poll" /\ w_pc' = "cleanup" /\ client_sock' >= 0) =>
              (s_pc # "scan" /\ q_pc # "scan")]_vars
    /\ [][clients' # clients =>
              \/ (client_mutex = "worker" /\ w_pc = "scan" /\ w_i' = w_i + 1)
              \/ (client_mutex = "sender" /\ s_pc = "scan" /\ s_i' = s_i + 1)
              \/ (client_mutex = "free" /\ w_pc = "poll" /\ client_sock' >= 0)
              \/ init_pc' # init_pc]_vars

\* The query task is inside its scan after a broadcast reached a peer, while
\* the worker waits to start its liveness pass.
C18_Witness ==
    /\ q_pc = "scan"
    /\ s_pc = "return"
    /\ Len(s_tried) > 0
    /\ w_pc = "cleanup"
    /\ client_sock >= 0

\* C16: the serialization emits a "text" array of min(text_count, 10) elements
\* and a "shapes" array of min(shape_count, 20) elements, the k-th element
\* built from the k-th input element; 1 text element and 0 shapes give arrays
\* of length 1 and 0.
C16_ArraysCappedInOrder ==
    (j_pc = "done" /\ json # NullJson) =>
        /\ Len(json.text) = IF overlay.text_count < OVERLAY_MAX_TEXT
                            THEN overlay.text_count ELSE OVERLAY_MAX_TEXT
        /\ Len(json.shapes) = IF overlay.shape_count < OVERLAY_MAX_SHAPES
                              THEN overlay.shape_count ELSE OVERLAY_MAX_SHAPES
        /\ \A k \in 1 .. Len(json.text) :
              /\ json.text[k].content = overlay.texts[k - 1].content
              /\ json.text[k].x = overlay.texts[k - 1].x
        /\ \A k \in 1 .. Len(json.shapes) :
              /\ json.shapes[k].color = overlay.shapes[k - 1].color
              /\ (json.shapes[k].type = "rect")
                    = (overlay.shapes[k - 1].type = "OVERLAY_SHAPE_RECT")
        /\ (overlay.text_count = 1 /\ overlay.shape_count = 0) =>
              (Len(json.text) = 1 /\ Len(json.shapes) = 0)

\* An overlay with more texts and more shapes than the arrays hold has been
\* serialized.
C16_Witness ==
    /\ j_pc = "done"
    /\ json # NullJson
    /\ overlay.text_count > OVERLAY_MAX_TEXT
    /\ overlay.shape_count > OVERLAY_MAX_SHAPES
    /\ Len(json.text) = OVERLAY_MAX_TEXT

\* C15: StreamGetClientCount returns the number of active stream clients:
\* whenever no stream_handler instance is in the middle of its client_count++
\* or client_count--, the count equals the number of instances that have
\* entered and not yet returned, and it is 0 once every instance has returned.
C15_CountIsRunningPumps ==
    (\A p \in Handlers : h_pc[p] \in {"idle", "running", "returned"}) =>
        StreamGetClientCount = Cardinality({p \in Handlers : h_pc[p] = "running"})

\* C19: the overlay slot records and client_count are mutated only under a
\* lock: at most one task at a time is between the start of its descriptor
\* scan and the end of its fan-out, so a slot record or the count changes
\* only in a step of the one task that is inside.
C19_UpdatesExcludeEachOther ==
    Cardinality({t \in Updaters : u_pc[t] # "idle"}) <= 1

\* C21: in SystemTcpSendToClients a peer that accepts only part of the payload
\* (0 <= sent < len) adds exactly the accepted byte count to the running total
\* and stays live, a peer whose send would block adds 0 and stays live (no
\* slot record changes in either step), and no slot is sent to a second time
\* in the same call.
C21_PartialAndWouldBlock ==
    /\ [][(Len(s_tried') = Len(s_tried) + 1) =>
            /\ (s_last'.ret >= 0 /\ s_last'.ret < s_len) =>
                  /\ total_sent' = total_sent + s_last'.ret
                  /\ clients' = clients
                  /\ clients'[s_i].connected
            /\ (s_last'.ret < 0 /\ s_last'.errno = "EAGAIN") =>
                  /\ total_sent' = total_sent
                  /\ clients' = clients
                  /\ clients'[s_i].connected]_vars
    /\ [](\A i, j \in 1 .. Len(s_tried) : i # j => s_tried[i] # s_tried[j])

\* The broadcast has had one would-block and then one partial send of 1 byte
\* out of 2, and both peers are still live.
C21_Witness ==
    /\ s_pc = "scan"
    /\ s_len = 2
    /\ Len(s_tried) = 2
    /\ s_short
    /\ s_last.ret = 1
    /\ total_sent = 1
    /\ clients[s_tried[1]].connected
    /\ clients[s_tried[2]].connected

C23_ListenAtMostOnce ==
    /\ [][server_socket' # server_socket =>
            (server_socket < 0 /\ server_socket' >= 0)]_vars
    /\ [](\A a \in BOOLEAN, b \in BOOLEAN, c \in BOOLEAN :
             /\ tcp_server_ret(ListenSock, a, b, c) = -1
             /\ tcp_server_socket(ListenSock, a, b, c) = ListenSock
             /\ ~(a /\ b /\ c) => /\ tcp_server_ret(-1, a, b, c) = -1
                                  /\ tcp_server_socket(-1, a, b, c) = -1)
    /\ [](create_rets = << -1 >> => server_socket < 0)
    /\ [](create_rets = << 0 >> => server_socket >= 0)
    /\ [][w_accepts' > w_accepts => server_socket >= 0]_vars
    /\ [][(w_pc = "poll" /\ w_pc' # "poll") => w_pc' = "cleanup"]_vars
    /\ [][(w_pc = "cleanup" /\ w_pc' # "cleanup") => w_pc' = "scan"]_vars

\* tcp_server_create has failed and the worker has finished the scan of a
\* liveness pass without having called accept.
C23_Witness ==
    /\ create_rets = << -1 >>
    /\ server_socket < 0
    /\ w_pc = "scan"
    /\ w_i = MAX_CLIENTS
    /\ w_accepts = 0

\* C24: a worker poll calls accept at most once, so a cycle admits at most one
\* new peer: a slot becomes live only in a poll step that called accept, at
\* most one slot per step, and no other slot record changes in that step; a
\* poll that finds no connection pending leaves every slot record unchanged
\* and closes no descriptor.
C24_OneAcceptPerPoll ==
    /\ [](w_accepts <= 1)
    /\ [][(\E i \in Slots : clients'[i].connected /\ ~clients[i].connected) =>
            /\ w_pc = "poll"
            /\ w_accepts' = w_accepts + 1
            /\ Cardinality({i \in Slots : clients'[i] # clients[i]}) = 1]_vars
    /\ [][(w_pc = "poll" /\ w_pc' = "cleanup") =>
            /\ w_accepts' <= w_accepts + 1
            /\ client_sock' < 0 => (clients' = clients /\ open' = open)
            /\ \A i \in Slots : clients[i].connected => clients'[i] = clients[i]]_vars

\* Two cycles have each admitted one peer, and the poll of a third cycle has
\* called accept with no connection pending.
C24_Witness ==
    /\ w_pc = "cleanup"
    /\ w_accepts = 1
    /\ client_sock < 0
    /\ Cardinality({i \in Slots : clients[i].connected}) = 2

\* C25: in every frame pump iteration the chunks are written in the order
\* boundary marker, header, payload; the header's Content-Length (and the
\* payload's byte count) is the length of the frame acquired in that
\* iteration; after a failed write nothing more is written, in that unit or
\* in a later one, until the handler returns; and the frame counter is
\* incremented only after all three writes of the iteration succeeded.
C25_BoundaryHeaderPayload ==
    /\ [](/\ Len(p_sent) <= 3
          /\ \A k \in 1 .. Len(p_sent) :
                /\ p_sent[k].part = << "boundary", "header", "payload" >>[k]
                /\ p_sent[k].part # "boundary" => p_sent[k].n = fb_len
                /\ k < Len(p_sent) => p_sent[k].res = "ESP_OK")
    /\ [][(p_sent # << >> /\ p_sent[Len(p_sent)].res # "ESP_OK") =>
            (p_sent' = p_sent \/ p_pc' = "idle")]_vars
    /\ [][frame_count' # frame_count =>
            /\ frame_count' = frame_count + 1
            /\ Len(p_sent) = 3
            /\ \A k \in 1 .. 3 : p_sent[k].res = "ESP_OK"]_vars

\* The pump has streamed one frame in full and, in its second iteration, has
\* written the boundary and the header of a frame of 1 byte.
C25_Witness ==
    /\ frame_count = 1
    /\ p_pc = "payload"
    /\ Len(p_sent) = 2
    /\ fb_len = 1
    /\ p_sent[2].n = 1
    /\ p_gets = 2

\* C26: in every OverlaySendUpdate call that built a payload, the JSON buffer
\* and the frame structure are each released exactly once, never leaked and
\* never freed twice, whether no client is connected, every send succeeds,
\* some sends fail, or the frame structure allocation fails (then the frame
\* structure does not exist and only the JSON buffer is released).
C26_BlocksFreedOnce ==
    /\ ov_heap.json.frees <= 1
    /\ ov_heap.pkt.frees <= 1
    /\ ov_pc \in {"return", "failed"} =>
          /\ ov_heap.json.frees = (IF ov_heap.json.built THEN 1 ELSE 0)
          /\ ov_heap.pkt.frees = (IF ov_heap.pkt.built THEN 1 ELSE 0)
          /\ ov_heap.pkt.built => ov_heap.json.built
    /\ ov_pc = "return" => (ov_heap.json.built /\ ov_heap.pkt.built)

\* A call has returned after a fan-out in which one send failed and another
\* succeeded, and both blocks have been freed once.
C26_Witness ==
    /\ ov_pc = "return"
    /\ Cardinality(ov_tried) = 2
    /\ ov_sent = 1
    /\ ov_heap.json.frees = 1
    /\ ov_heap.pkt.frees = 1

\* C27: every worker cycle runs the accept step, then one liveness pass, then
\* sleeps, and a live slot whose remote end has closed is evicted at the
\* latest by the end of the next complete worker cycle: the liveness pass
\* that reaches a live slot whose remote end has already closed evicts it.
C27_ClosedPeerEvictedByNextPass ==
    /\ [][(w_pc # w_pc') =>
            \/ (w_pc = "off" /\ w_pc' = "poll")
            \/ (w_pc = "poll" /\ w_pc' = "cleanup")
            \/ (w_pc = "cleanup" /\ w_pc' = "scan")
            \/ (w_pc = "scan" /\ w_pc' = "poll" /\ w_i = MAX_CLIENTS)]_vars
    /\ [][(/\ w_pc = "scan"
           /\ w_i' = w_i + 1
           /\ clients[w_i].connected
           /\ clients[w_i].socket \in fin) => ~clients'[w_i].connected]_vars

\* C28: the receive-total and transmit-total byte counters are monotonically
\* increasing: across any sequence of app_throughput_add_rx and
\* app_throughput_add_tx calls with 32-bit byte amounts, neither total is
\* smaller after a call than before it.
C28_TotalsNeverDecrease ==
    [][/\ ~U32Less(total_rx_bytes', total_rx_bytes)
       /\ ~U32Less(total_tx_bytes', total_tx_bytes)]_vars

\* C29: on the control channel a slot is never marked free while its handle
\* is still open: every eviction closes the slot's socket, so every open
\* client descriptor is the socket of exactly one live slot, and a slot goes
\* from live to free only in a step that closes its socket.
C29_EvictionClosesSocket ==
    /\ [](\A h \in open :
             Cardinality({i \in Slots : clients[i].connected
                                         /\ clients[i].socket = h}) = 1)
    /\ [][\A i \in Slots :
            (clients[i].connected /\ ~clients'[i].connected) =>
                (clients[i].socket \in open /\ clients[i].socket \notin open')]_vars

\* C30: the control-channel mutex is released on every path of every
\* operation that takes it, so under fair scheduling the mutex never stays
\* with the worker, a broadcaster or a query task: it is free again and again
\* for the tasks that wait for it, the worker, once started, gets it at its
\* take and ends its pass again and again, and every broadcast and every
\* query that has started returns: nothing deadlocks.
C30_MutexAlwaysReleased ==
    /\ []<>(client_mutex \in {"null", "free"})
    /\ []<>(w_pc = "off" \/ (w_pc = "scan" /\ client_mutex = "worker"))
    /\ []<>(w_pc \in {"off", "poll"})
    /\ []<>(s_pc = "idle")
    /\ []<>(q_pc = "idle")

\* The worker is at its take of the mutex while a broadcast holds it, with a
\* live slot in the table.
C30_Witness ==
    /\ w_pc = "cleanup"
    /\ client_mutex = "sender"
    /\ s_pc = "scan"
    /\ s_i = 0
    /\ clients[0].connected

\* C31: with byte-adding tasks running concurrently with the reporting pass,
\* every byte added to a total is attributed to exactly one sampling interval:
\* once a pass has stored its sample, the per-interval differences computed
\* so far sum, modulo 2^32, to the counter total at that sample.
C31_DiffsSumToLastSample ==
    /\ m_pc \in {"tx_last", "rx_diff"} => sum_rx = last_rx_bytes
    /\ m_pc = "rx_diff" => sum_tx = last_tx_bytes

\* C32: once OverlayInit has set the slots up, after any sequence of
\* OverlaySendUpdate calls by one caller no two slots hold the same descriptor
\* other than the initial -1, and a broadcast sends its frame to any one
\* connection at most once: the frames sent are no more than the distinct
\* descriptors the broadcast tried.
C32_SlotDescriptorsDistinct ==
    ov_server =>
        /\ \A i \in WsSlots : \A j \in WsSlots :
              (i # j /\ ov_clients[i].fd = ov_clients[j].fd) => ov_clients[i].fd = -1
        /\ ov_pc = "return" => ov_sent <= Cardinality(ov_tried)

\* A broadcast has sent to two connections while a slot keeps the descriptor
\* of a session that ended and two slots are still at -1.
C32_Witness ==
    /\ ov_server
    /\ ov_pc = "return"
    /\ ov_sent >= 2
    /\ \E i \in WsSlots : ov_clients[i].fd # -1 /\ ~ov_clients[i].connected
    /\ \E i \in WsSlots : \E j \in WsSlots :
          i # j /\ ov_clients[i].fd = -1 /\ ov_clients[j].fd = -1

\* C33: although SystemInit starts the worker before it creates the TCP
\* server, under any interleaving of the two the worker calls accept only on a
\* handle that bind and listen have succeeded on: the listening-handle field
\* is written only after both succeeded, and whenever it is set it names a
\* listening descriptor.
C33_AcceptOnlyOnListening ==
    /\ [][w_accepts' > w_accepts => server_socket \in listening]_vars
    /\ [][server_socket' # server_socket =>
            (init_pc = "store" /\ server_socket' \in listening)]_vars
    /\ [](server_socket >= 0 => server_socket \in listening)

\* The worker, started by SystemInit, has polled without calling accept and
\* is in its liveness pass while tcp_server_create stands between the
\* successful listen and the write of the field.
C33_Witness ==
    /\ init_pc = "store"
    /\ ListenSock \in listening
    /\ server_socket < 0
    /\ w_pc = "scan"
    /\ w_accepts = 0

====
